---- MODULE Spec2Model ----
(***************************************************************************)
(* Model of resumesx: the session aggregation pipeline (the Claude, Codex  *)
(* and Gemini providers, the formatting helpers and scanProviders) and the *)
(* command line entry point that calls it.                                 *)
(*                                                                         *)
(* JavaScript strings whose characters matter (paths, message texts) are   *)
(* sequences of one-character strings; identifiers, file names and ISO     *)
(* date strings, which the code only compares or parses as a whole, are    *)
(* TLA+ strings.  An absent (undefined) value is NoString, NoId or         *)
(* NoNumber according to its type.                                         *)
(***************************************************************************)
EXTENDS Integers, Sequences, FiniteSets, TLC

VARIABLES
  cPc,        \* claudeProvider.fetchEvents: "idle", "start", "reading", "done"
  cArg,       \* the argument fetchEvents was called with
  cLog,       \* the lines of ~/.claude/history.jsonl the stream has yielded
  sessions,   \* the Map<string, SessionData>, in insertion order
  cResult,    \* the events fetchEvents resolved with
  xPc,        \* codexProvider.fetchEvents: "idle", "start", "loop", "done"
  xArg,       \* the argument fetchEvents was called with
  xFiles,     \* fileStats: the listed files with their stat, sorted once listed
  xIdx,       \* position of the `for (const entry of fileStats)` loop
  xEvents,    \* the events array being built
  xOpened,    \* names of the files readSessionSummary was called on, in order
  xLast,      \* the last file read: its SessionSummary and whether it was pushed
  xResult,    \* the events fetchEvents resolved with
  rPc,        \* readSessionSummary on one file: "idle", "reading", "done"
  rLines,     \* the lines of the file the stream has yielded
  rSum,       \* sessionId, sessionCwd, the user messages and lastTimestamp so far
  rEvents,    \* what fetchEvents pushed for the file once it was read
  gPc,        \* geminiProvider.fetchEvents: "idle", "start", "loop", "done"
  gArg,       \* the argument fetchEvents was called with
  gStore,     \* the chat files under ~/.gemini/tmp, each with its project directory
  gFiles,     \* sortedFiles of readGeminiSessions
  gIdx,       \* position of the `for (const filePath of sortedFiles)` loop
  gEvents,    \* the events array being built
  gLast,      \* the last file read: its document and whether it was pushed
  gResult,    \* the events fetchEvents resolved with
  sPc,        \* the scan: "idle", "main" (cli.tsx), "call" (a direct call), "scanning", "done"
  sRawLimit,  \* cli.flags.limit
  sOptions,   \* the second argument of scanProviders
  sProviders, \* the providers: what each fetchEvents call will settle with
  sResults,   \* what each provider's async callback has resolved with so far
  sScan,      \* the promise scanProviders returned
  sOrder,     \* the providers' indices in the order their calls settled
  mPc,        \* cli.tsx main after the scan: "idle", "scan", "spawned", "picker", "exit"
  mLast,      \* cli.flags.last
  mExitCode,  \* process.exitCode
  mLog,       \* what console.log printed, in order
  mSpawned,   \* the spawnInteractive calls made, in order
  mRendered,  \* whether render(<App .../>) was called
  fPc,        \* a caller of toSummary: "idle", "start", "once", "twice"
  fInput,     \* the text it summarises
  fOnce,      \* toSummary(fInput)
  fTwice,     \* toSummary(fOnce)
  pPc,        \* the picker: "idle", "picker", "exited", "end"
  pEvents,    \* App's events prop
  pRows,      \* stdout.rows
  pQuery,     \* App's query state
  pSelectedIndex,  \* App's selectedIndex state
  pWindowStart,    \* App's windowStart state
  pMessage,   \* App's message state
  pSelectedResume, \* selectedResume.value in main
  pSpawned,   \* the subprocesses main spawned after the picker
  pKey,       \* the last key the picker received
  ePc,        \* runCommand / spawnInteractive: "idle", "call", "running"
  eKind,      \* which of the two was called
  eTimeoutMs, \* options.timeoutMs
  eTimer,     \* the timeout: "none", "armed", "fired", "cleared"
  eSettled,   \* the settled flag
  eStdout,    \* the number of chunks added to stdout
  eResolved,  \* the values resolve was called with, in order
  eKills,     \* for every child.kill: whether resolve had been called before
  eChild      \* the events the child has emitted, in order

claudeVars == <<cPc, cArg, cLog, sessions, cResult>>
codexVars == <<xPc, xArg, xFiles, xIdx, xEvents, xOpened, xLast, xResult>>
geminiVars == <<gPc, gArg, gStore, gFiles, gIdx, gEvents, gLast, gResult>>
scanVars == <<sPc, sRawLimit, sOptions, sProviders, sResults, sScan, sOrder>>
mainVars == <<mPc, mLast, mExitCode, mLog, mSpawned, mRendered>>
formatVars == <<fPc, fInput, fOnce, fTwice>>
readVars == <<rPc, rLines, rSum, rEvents>>
pickerVars == <<pPc, pEvents, pRows, pQuery, pSelectedIndex, pWindowStart, pMessage,
                pSelectedResume, pSpawned, pKey>>
execVars == <<ePc, eKind, eTimeoutMs, eTimer, eSettled, eStdout, eResolved, eKills, eChild>>
vars == <<claudeVars, codexVars, geminiVars, scanVars, mainVars, formatVars, readVars,
          pickerVars, execVars>>

----------------------------------------------------------------------------
(* Bounds of the model *)

MaxLines == 3
MaxFiles == 2
MaxProviders == 2
MaxEvents == 1
MaxText == 3
MaxFileLines == 3

----------------------------------------------------------------------------
(* JavaScript values *)

NoNumber == 0 - 1
NaN == 0 - 2
NoId == "<undefined>"
NoString == <<"<undefined>">>

ArgUndefined == [kind |-> "undefined", n |-> NoNumber, limit |-> NoNumber, includeAll |-> FALSE]
ArgNumber(n) == [kind |-> "number", n |-> n, limit |-> NoNumber, includeAll |-> FALSE]
ArgObject(limit, includeAll) ==
  [kind |-> "object", n |-> NoNumber, limit |-> limit, includeAll |-> includeAll]

\* the sequences of at most n elements of S
RECURSIVE SeqsUpTo(_, _)
SeqsUpTo(S, n) ==
  IF n = 0 THEN {<<>>}
  ELSE LET shorter == SeqsUpTo(S, n - 1)
       IN  shorter \cup { Append(q, x) : q \in shorter, x \in S }

Min(a, b) == IF a <= b THEN a ELSE b
Max(a, b) == IF a >= b THEN a ELSE b

\* s.startsWith(p)
StartsWith(s, p) == Len(p) <= Len(s) /\ SubSeq(s, 1, Len(p)) = p

\* s.includes(sub)
Includes(s, sub) ==
  \E i \in 0..(Len(s) - Len(sub)) : SubSeq(s, i + 1, i + Len(sub)) = sub

\* array.slice(0, end) for an integral end
Slice0(seq, end) ==
  LET e == IF end < 0 THEN Max(Len(seq) + end, 0) ELSE Min(end, Len(seq))
  IN  SubSeq(seq, 1, e)

\* ToIntegerOrInfinity of a call argument: an object converts to NaN, hence 0
ToInteger(arg) == IF arg.kind = "number" THEN arg.n ELSE 0

\* the events of the latest of the times first, in the order they came in
RECURSIVE LatestFirst(_, _)
LatestFirst(events, times) ==
  IF times = {} THEN <<>>
  ELSE LET t == CHOOSE a \in times : \A b \in times : b <= a
       IN  SelectSeq(events, LAMBDA e : e.occurredAt = t)
             \o LatestFirst(events, times \ {t})

\* array.sort((a, b) => b.occurredAt.getTime() - a.occurredAt.getTime()),
\* a stable sort: equal keys keep their relative order
SortDesc(events) ==
  LatestFirst(events, { events[k].occurredAt : k \in 1..Len(events) })

----------------------------------------------------------------------------
(* lib/format.ts *)

SummaryMax == 120
SummaryKeep == 117

Whitespace == {" ", "\t", "\n"}

\* input.replace(/\s+/g, ' '): every maximal run of whitespace becomes one
\* space (the run is represented by its last character)
CollapseWs(s) ==
  LET scanned == [i \in 1..Len(s) |->
                    IF s[i] \notin Whitespace THEN [ch |-> s[i], keep |-> TRUE]
                    ELSE [ch |-> " ", keep |-> i = Len(s) \/ s[i + 1] \notin Whitespace]]
      kept == SelectSeq(scanned, LAMBDA c : c.keep)
  IN  [i \in 1..Len(kept) |-> kept[i].ch]

RECURSIVE TrimLeft(_)
TrimLeft(s) ==
  IF s # <<>> /\ Head(s) \in Whitespace THEN TrimLeft(Tail(s)) ELSE s

RECURSIVE TrimRight(_)
TrimRight(s) ==
  IF s # <<>> /\ s[Len(s)] \in Whitespace
  THEN TrimRight(SubSeq(s, 1, Len(s) - 1)) ELSE s

\* a trim of the left end only
Trim_LeftOnly(s) == TrimLeft(s)

\* input.trim()
Trim(s) == TrimRight(TrimLeft(s))

\* the summary that is cut and given its "..." whatever its length
toSummary_AlwaysCut(input) ==
  IF input = NoString \/ input = <<>> THEN NoString
  ELSE LET trimmed == Trim(CollapseWs(input))
       IN  IF trimmed = <<>> THEN NoString
           ELSE SubSeq(trimmed, 1, Min(Len(trimmed), SummaryKeep)) \o <<".", ".", ".">>

toSummary(input) ==
  IF input = NoString \/ input = <<>> THEN NoString
  ELSE LET trimmed == Trim(CollapseWs(input))
       IN  IF trimmed = <<>> THEN NoString
           ELSE IF Len(trimmed) > SummaryMax
                THEN SubSeq(trimmed, 1, SummaryKeep) \o <<".", ".", ".">>
                ELSE trimmed

markers ==
  { <<"R","e","s","u","m","e"," ","a"," ","p","r","e","v","i","o","u","s"," ",
      "s","e","s","s","i","o","n">>,
    <<"T","y","p","e"," ","t","o"," ","s","e","a","r","c","h">>,
    <<"U","p","/","D","o","w","n",":">>,
    <<"L","e","f","t","/","R","i","g","h","t">>,
    <<"P","a","g","e",":">> }

isUiEcho(message) == \E marker \in markers : Includes(message, marker)

\* the texts toSummary is given: every text of up to MaxText characters,
\* alone and inside a text about as long as a summary may be
Alphabet == {"a", ".", " ", "\n"}

Repeat(c, n) == [i \in 1..n |-> c]

PadLengths == (SummaryKeep - 2)..SummaryKeep
TailLengths == {0, 1, SummaryMax - SummaryKeep + 1}

FormatInputs ==
  {NoString}
  \cup SeqsUpTo(Alphabet, MaxText)
  \cup { Repeat("a", n) \o t \o Repeat("a", m) :
           n \in PadLengths, t \in SeqsUpTo(Alphabet, MaxText), m \in TailLengths }

FormatStart ==
  /\ fPc = "start"
  /\ fInput \in FormatInputs
  /\ fOnce = NoString
  /\ fTwice = NoString

FormatIdle ==
  /\ fPc = "idle"
  /\ fInput = NoString
  /\ fOnce = NoString
  /\ fTwice = NoString

\* const summary = toSummary(text)
Summarise ==
  /\ fPc = "start"
  /\ fPc' = "once"
  /\ fOnce' = toSummary(fInput)
  /\ UNCHANGED <<fInput, fTwice, claudeVars, codexVars, geminiVars, scanVars, mainVars, readVars,
                 pickerVars, execVars>>

\* toSummary(summary), for a summary that is defined
SummariseAgain ==
  /\ fPc = "once"
  /\ fOnce # NoString
  /\ fPc' = "twice"
  /\ fTwice' = toSummary(fOnce)
  /\ UNCHANGED <<fInput, fOnce, claudeVars, codexVars, geminiVars, scanVars, mainVars, readVars,
                 pickerVars, execVars>>

NextFormat == Summarise \/ SummariseAgain

----------------------------------------------------------------------------
(* Directories *)

sep == <<"/">>

cwd == <<"/","a","/","p">>
DirParent == <<"/","a">>
DirChild == <<"/","a","/","p","/","s">>
DirSibling == <<"/","a","/","p","2">>
DirOther == <<"/","b">>

\* the test with the path separator left out of both prefixes
matchesProject_NoSeparator(project, dir) ==
  \/ project = dir
  \/ StartsWith(dir, project)
  \/ StartsWith(project, dir)

\* sessionCwd === cwd || cwd.startsWith(`${sessionCwd}${path.sep}`) ||
\* sessionCwd.startsWith(`${cwd}${path.sep}`)
matchesProject(project, dir) ==
  \/ project = dir
  \/ StartsWith(dir, project \o sep)
  \/ StartsWith(project, dir \o sep)

----------------------------------------------------------------------------
(* providers/claude/index.ts *)

DefaultLimit == 50

HelloText == <<"h","i">>
WorldText == <<"y","o">>
EchoText == <<"P","a","g","e",":"," ","1">>
BlankText == <<" ">>
\* the picker's search hint, wrapped over two lines
WrappedEchoText == <<"T","y","p","e","\n","t","o"," ","s","e","a","r","c","h">>

ClaudeRecord(sid, ts, project, display) ==
  [kind |-> "record", sessionId |-> sid, timestamp |-> ts,
   project |-> project, display |-> display]

\* a line that JSON.parse rejects, and a JSON value of the wrong shape
GarbageLine ==
  [kind |-> "garbage", sessionId |-> NoId, timestamp |-> NoNumber,
   project |-> NoString, display |-> NoString]
BadShapeLine ==
  [kind |-> "badshape", sessionId |-> NoId, timestamp |-> NoNumber,
   project |-> NoString, display |-> NoString]

ClaudeLines ==
  { ClaudeRecord("s1", 100, cwd, HelloText), ClaudeRecord("s1", 200, cwd, HelloText),
    ClaudeRecord("s1", 200, cwd, WorldText), ClaudeRecord("s1", 300, cwd, WorldText),
    ClaudeRecord("s2", 100, cwd, HelloText), ClaudeRecord("s2", 300, cwd, HelloText) }
  \cup { ClaudeRecord("s3", 200, p, WorldText) :
           p \in {DirParent, DirChild, DirSibling, DirOther} }
  \cup { ClaudeRecord(NoId, 300, cwd, WorldText),
         ClaudeRecord("s1", NoNumber, cwd, WorldText),
         ClaudeRecord("s1", 300, NoString, WorldText) }
  \cup { ClaudeRecord("s1", 300, cwd, BlankText),
         ClaudeRecord("s1", 300, cwd, EchoText) }
  \cup { GarbageLine, BadShapeLine }

ClaudeArgs == { ArgUndefined, ArgNumber(1), ArgObject(NoNumber, TRUE) }

\* JSON.parse succeeded and isValidClaudeRecord(parsed)
isValidClaudeRecord(line) == line.kind = "record"

\* the guard without its sessionId test
HasRequiredFields_NoSessionTest(rec) ==
  /\ rec.timestamp # NoNumber /\ rec.timestamp # 0
  /\ rec.project # NoString /\ rec.project # <<>>

\* !(!parsed.sessionId || !parsed.timestamp || !parsed.project)
HasRequiredFields(rec) ==
  /\ rec.sessionId # NoId /\ rec.sessionId # ""
  /\ rec.timestamp # NoNumber /\ rec.timestamp # 0
  /\ rec.project # NoString /\ rec.project # <<>>

\* parsed.display && !isUiEcho(parsed.display) ? toSummary(parsed.display) : undefined
ClaudeSummary(rec) ==
  IF rec.display # NoString /\ rec.display # <<>> /\ ~isUiEcho(rec.display)
  THEN toSummary(rec.display) ELSE NoString

\* the tests without the one on the project directory
ClaudeAccepts_NoProjectTest(line) ==
  /\ isValidClaudeRecord(line)
  /\ HasRequiredFields(line)
  /\ ClaudeSummary(line) # NoString

\* the record reaches the aggregation (no `continue` was taken)
ClaudeAccepts(line) ==
  /\ isValidClaudeRecord(line)
  /\ HasRequiredFields(line)
  /\ matchesProject(line.project, cwd)
  /\ ClaudeSummary(line) # NoString

SessionIndex(map, sid) ==
  IF \E i \in 1..Len(map) : map[i].sessionId = sid
  THEN CHOOSE i \in 1..Len(map) : map[i].sessionId = sid
  ELSE 0

\* the update with the comparison against firstTimestamp reversed
UpdateSession_FirstReversed(existing, ts, summary) ==
  LET e1 == IF ts > existing.firstTimestamp
            THEN [existing EXCEPT !.firstTimestamp = ts, !.first = summary]
            ELSE existing
  IN  IF ts >= e1.lastTimestamp
      THEN [e1 EXCEPT !.prevTimestamp = e1.lastTimestamp, !.prev = e1.last,
                      !.lastTimestamp = ts, !.last = summary]
      ELSE IF e1.prevTimestamp = NoNumber \/ e1.prevTimestamp = 0
              \/ ts > e1.prevTimestamp
           THEN [e1 EXCEPT !.prevTimestamp = ts, !.prev = summary]
           ELSE e1

\* lines 98-111: the update of an existing SessionData
UpdateSession(existing, ts, summary) ==
  LET e1 == IF ts < existing.firstTimestamp
            THEN [existing EXCEPT !.firstTimestamp = ts, !.first = summary]
            ELSE existing
  IN  IF ts >= e1.lastTimestamp
      THEN [e1 EXCEPT !.prevTimestamp = e1.lastTimestamp, !.prev = e1.last,
                      !.lastTimestamp = ts, !.last = summary]
      ELSE IF e1.prevTimestamp = NoNumber \/ e1.prevTimestamp = 0
              \/ ts > e1.prevTimestamp
           THEN [e1 EXCEPT !.prevTimestamp = ts, !.prev = summary]
           ELSE e1

\* the loop body that stores every accepted record as a new session's data
ClaudeStep_AlwaysNew(map, line) ==
  IF ~ClaudeAccepts(line) THEN map
  ELSE LET i == SessionIndex(map, line.sessionId)
           summary == ClaudeSummary(line)
           fresh == [sessionId |-> line.sessionId,
                     firstTimestamp |-> line.timestamp,
                     lastTimestamp |-> line.timestamp,
                     prevTimestamp |-> NoNumber,
                     first |-> summary, last |-> summary,
                     prev |-> NoString]
       IN  IF i = 0 THEN Append(map, fresh) ELSE [map EXCEPT ![i] = fresh]

\* one iteration of the `for await (const line of rl)` loop
ClaudeStep(map, line) ==
  IF ~ClaudeAccepts(line) THEN map
  ELSE LET i == SessionIndex(map, line.sessionId)
           summary == ClaudeSummary(line)
       IN  IF i = 0
           THEN Append(map, [sessionId |-> line.sessionId,
                             firstTimestamp |-> line.timestamp,
                             lastTimestamp |-> line.timestamp,
                             prevTimestamp |-> NoNumber,
                             first |-> summary, last |-> summary,
                             prev |-> NoString])
           ELSE [map EXCEPT ![i] = UpdateSession(map[i], line.timestamp, summary)]

\* data.first ?? data.prev ?? data.last
SessionSummaryOf(data) ==
  IF data.first # NoString THEN data.first
  ELSE IF data.prev # NoString THEN data.prev ELSE data.last

ClaudeEvent(data) ==
  [id |-> <<"claude", data.sessionId>>, label |-> "Claude Code",
   occurredAt |-> data.lastTimestamp, source |-> "history.jsonl",
   confidence |-> "high", summary |-> SessionSummaryOf(data),
   resume |-> [command |-> "claude", args |-> <<"--resume", data.sessionId>>,
               mode |-> "resume"]]

\* lines 118-137: the events of the sessions that have a summary
RECURSIVE ClaudeItems(_)
ClaudeItems(map) ==
  IF map = <<>> THEN <<>>
  ELSE LET summary == SessionSummaryOf(Head(map))
       IN  IF summary = NoString \/ summary = <<>>
           THEN ClaudeItems(Tail(map))
           ELSE <<ClaudeEvent(Head(map))>> \o ClaudeItems(Tail(map))

\* limit ?? 50, then items.slice(0, effectiveLimit)
ClaudeSlice(items, arg) ==
  IF arg.kind = "undefined" THEN Slice0(items, DefaultLimit)
  ELSE Slice0(items, ToInteger(arg))

\* the whole `for await` loop over a log
RECURSIVE ClaudeFold(_)
ClaudeFold(lines) ==
  IF lines = <<>> THEN <<>>
  ELSE ClaudeStep(ClaudeFold(SubSeq(lines, 1, Len(lines) - 1)), lines[Len(lines)])

ClaudeFinalize(map, arg) == ClaudeSlice(SortDesc(ClaudeItems(map)), arg)

ClaudeStart ==
  /\ cPc = "start"
  /\ cArg \in ClaudeArgs
  /\ cLog = <<>>
  /\ sessions = <<>>
  /\ cResult = <<>>

ClaudeIdle ==
  /\ cPc = "idle"
  /\ cArg = ArgUndefined
  /\ cLog = <<>>
  /\ sessions = <<>>
  /\ cResult = <<>>

\* pathExists(historyPath) is false: return []
ClaudeMissing ==
  /\ cPc = "start"
  /\ cPc' = "done"
  /\ cResult' = <<>>
  /\ UNCHANGED <<cArg, cLog, sessions, codexVars, geminiVars, scanVars, mainVars, formatVars, readVars,
                 pickerVars, execVars>>

ClaudeOpen ==
  /\ cPc = "start"
  /\ cPc' = "reading"
  /\ UNCHANGED <<cArg, cLog, sessions, cResult, codexVars, geminiVars, scanVars, mainVars, formatVars, readVars,
                 pickerVars, execVars>>

ClaudeLine ==
  /\ cPc = "reading"
  /\ Len(cLog) < MaxLines
  /\ \E line \in ClaudeLines :
       /\ cLog' = Append(cLog, line)
       /\ sessions' = ClaudeStep(sessions, line)
  /\ UNCHANGED <<cPc, cArg, cResult, codexVars, geminiVars, scanVars, mainVars, formatVars, readVars,
                 pickerVars, execVars>>

\* end of the stream: materialise, sort and slice
ClaudeFinish ==
  /\ cPc = "reading"
  /\ cPc' = "done"
  /\ cResult' = ClaudeFinalize(sessions, cArg)
  /\ UNCHANGED <<cArg, cLog, sessions, codexVars, geminiVars, scanVars, mainVars, formatVars, readVars,
                 pickerVars, execVars>>

NextClaude == ClaudeMissing \/ ClaudeOpen \/ ClaudeLine \/ ClaudeFinish

----------------------------------------------------------------------------
(* providers/codex/index.ts *)

Time100 == "1970-01-01T00:00:00.100Z"
Time200 == "1970-01-01T00:00:00.200Z"
Time300 == "1970-01-01T00:00:00.300Z"
TimeBad == "not-a-date"

\* new Date(text).getTime()
DateParse(text) ==
  CASE text = Time100 -> 100
    [] text = Time200 -> 200
    [] text = Time300 -> 300
    [] OTHER -> NaN

CodexRecord(type, ts, id, dir, ptype, message) ==
  [kind |-> "record", type |-> type, timestamp |-> ts, hasPayload |-> TRUE,
   id |-> id, cwd |-> dir, ptype |-> ptype, message |-> message]

SessionMeta(id, dir) == CodexRecord("session_meta", Time100, id, dir, NoId, NoString)
UserMessage(ts, message) == CodexRecord("event_msg", ts, NoId, NoString, "user_message", message)

CodexGarbage ==
  [kind |-> "garbage", type |-> NoId, timestamp |-> NoId, hasPayload |-> FALSE,
   id |-> NoId, cwd |-> NoString, ptype |-> NoId, message |-> NoString]

\* a JSON value that isValidCodexRecord rejects
CodexBadShape ==
  [kind |-> "badshape", type |-> NoId, timestamp |-> NoId, hasPayload |-> FALSE,
   id |-> NoId, cwd |-> NoString, ptype |-> NoId, message |-> NoString]

\* the lines a session file may hold
CodexLines ==
  { SessionMeta("s1", cwd), SessionMeta("s2", NoString), SessionMeta(NoId, DirChild),
    UserMessage(Time200, HelloText), UserMessage(Time300, WorldText),
    UserMessage(Time300, EchoText), UserMessage(NoId, BlankText),
    CodexRecord("response_item", TimeBad, NoId, NoString, NoId, NoString),
    CodexGarbage, CodexBadShape }

\* the session files the store may hold
CodexContents ==
  { <<SessionMeta("s1", cwd), UserMessage(Time200, HelloText)>>,
    <<SessionMeta("s1", cwd), UserMessage(Time300, WorldText)>>,
    <<SessionMeta("s2", DirParent), UserMessage(Time200, HelloText),
      UserMessage(Time300, EchoText)>>,
    <<SessionMeta("s2", DirChild), UserMessage(Time200, WorldText)>>,
    <<SessionMeta("s1", DirSibling), UserMessage(Time200, HelloText)>>,
    <<SessionMeta("s2", DirOther), UserMessage(Time200, HelloText)>>,
    <<SessionMeta("s1", cwd), UserMessage(Time200, BlankText)>>,
    <<SessionMeta("s1", cwd), UserMessage(Time300, EchoText)>>,
    <<SessionMeta("s1", cwd), UserMessage(Time300, WrappedEchoText)>>,
    <<SessionMeta("s1", cwd), UserMessage(Time200, HelloText),
      CodexRecord("response_item", TimeBad, NoId, NoString, NoId, NoString)>>,
    <<CodexGarbage, UserMessage(Time200, HelloText)>>,
    <<>> }

CodexArgs == { ArgUndefined, ArgNumber(0), ArgNumber(1), ArgObject(1, FALSE) }

FileNames == <<"a.jsonl", "b.jsonl", "c.jsonl", "d.jsonl">>

\* mtimeMs of a file, NoNumber when statSafe returned null
Mtimes == {NoNumber, 1000, 2000}

CodexListings ==
  { [i \in 1..Len(m) |-> [name |-> FileNames[i], mtimeMs |-> m[i]]] :
      m \in SeqsUpTo(Mtimes, MaxFiles) }

\* the validator that also refuses records of a type the loop does not use
isValidCodexRecord_KnownTypesOnly(line) ==
  line.kind = "record" /\ line.type \in {"session_meta", "event_msg"}

\* JSON.parse succeeded and isValidCodexRecord(parsed)
isValidCodexRecord(line) == line.kind = "record"

EmptySummary ==
  [sessionId |-> NoId, sessionCwd |-> NoString, firstUserMessage |-> NoString,
   lastUserMessage |-> NoString, prevUserMessage |-> NoString, lastTimestamp |-> NoId]

\* the iteration that loses what was read when a line is not a valid record
CodexLineStep_ForgetsOnInvalid(sum, line) ==
  IF ~isValidCodexRecord(line) THEN EmptySummary
  ELSE LET s1 == IF line.timestamp # NoId
                 THEN [sum EXCEPT !.lastTimestamp = line.timestamp] ELSE sum
           s2 == IF line.type = "session_meta" /\ line.hasPayload
                 THEN [s1 EXCEPT
                         !.sessionId = IF line.id # NoId THEN line.id ELSE @,
                         !.sessionCwd = IF line.cwd # NoString THEN line.cwd ELSE @]
                 ELSE s1
       IN  IF /\ line.type = "event_msg" /\ line.hasPayload
              /\ line.ptype = "user_message" /\ line.message # NoString
              /\ ~isUiEcho(line.message)
           THEN [s2 EXCEPT
                   !.firstUserMessage =
                      IF @ = NoString \/ @ = <<>> THEN line.message ELSE @,
                   !.prevUserMessage = s2.lastUserMessage,
                   !.lastUserMessage = line.message]
           ELSE s2

\* one iteration of readSessionSummary's loop
CodexLineStep(sum, line) ==
  IF ~isValidCodexRecord(line) THEN sum
  ELSE LET s1 == IF line.timestamp # NoId
                 THEN [sum EXCEPT !.lastTimestamp = line.timestamp] ELSE sum
           s2 == IF line.type = "session_meta" /\ line.hasPayload
                 THEN [s1 EXCEPT
                         !.sessionId = IF line.id # NoId THEN line.id ELSE @,
                         !.sessionCwd = IF line.cwd # NoString THEN line.cwd ELSE @]
                 ELSE s1
       IN  IF /\ line.type = "event_msg" /\ line.hasPayload
              /\ line.ptype = "user_message" /\ line.message # NoString
              /\ ~isUiEcho(line.message)
           THEN [s2 EXCEPT
                   !.firstUserMessage =
                      IF @ = NoString \/ @ = <<>> THEN line.message ELSE @,
                   !.prevUserMessage = s2.lastUserMessage,
                   !.lastUserMessage = line.message]
           ELSE s2

RECURSIVE readSessionSummary(_)
readSessionSummary(lines) ==
  IF lines = <<>> THEN EmptySummary
  ELSE CodexLineStep(readSessionSummary(SubSeq(lines, 1, Len(lines) - 1)),
                     lines[Len(lines)])

\* summary.firstUserMessage ?? summary.prevUserMessage ?? summary.lastUserMessage
fallbackMessage(sum) ==
  IF sum.firstUserMessage # NoString THEN sum.firstUserMessage
  ELSE IF sum.prevUserMessage # NoString THEN sum.prevUserMessage
       ELSE sum.lastUserMessage

\* fallbackMessage ? toSummary(fallbackMessage) : undefined
shortSummary(sum) == toSummary(fallbackMessage(sum))

\* the tests without the one on shortSummary
CodexKeeps_NoSummaryTest(sum) ==
  /\ sum.sessionId # NoId /\ sum.sessionId # ""
  /\ sum.sessionCwd # NoString /\ sum.sessionCwd # <<>>
  /\ sum.lastTimestamp # NoId /\ sum.lastTimestamp # ""
  /\ matchesProject(sum.sessionCwd, cwd)
  /\ DateParse(sum.lastTimestamp) # NaN

\* lines 169-191: no `continue` is taken for this file
CodexKeeps(sum) ==
  /\ sum.sessionId # NoId /\ sum.sessionId # ""
  /\ sum.sessionCwd # NoString /\ sum.sessionCwd # <<>>
  /\ sum.lastTimestamp # NoId /\ sum.lastTimestamp # ""
  /\ matchesProject(sum.sessionCwd, cwd)
  /\ DateParse(sum.lastTimestamp) # NaN
  /\ shortSummary(sum) # NoString

CodexEvent(sum, fileName) ==
  [id |-> <<"codex", sum.sessionId>>, label |-> "Codex CLI",
   occurredAt |-> DateParse(sum.lastTimestamp), source |-> fileName,
   confidence |-> "high", summary |-> shortSummary(sum),
   resume |-> [command |-> "codex", args |-> <<"resume", sum.sessionId>>,
               mode |-> "resume"]]

\* events.length >= effectiveLimit, with effectiveLimit = limit ?? 50; a
\* comparison with an object compares with NaN and is false
CodexLimitReached(n, arg) ==
  CASE arg.kind = "undefined" -> n >= DefaultLimit
    [] arg.kind = "number" -> n >= arg.n
    [] OTHER -> FALSE

\* fileStats.sort((a, b) => (b.stat?.mtimeMs ?? 0) - (a.stat?.mtimeMs ?? 0))
MtimeKey(f) == IF f.mtimeMs = NoNumber THEN 0 ELSE f.mtimeMs

RECURSIVE InsertByMtime(_, _)
InsertByMtime(sorted, f) ==
  IF sorted = <<>> THEN <<f>>
  ELSE IF MtimeKey(Head(sorted)) >= MtimeKey(f)
       THEN <<Head(sorted)>> \o InsertByMtime(Tail(sorted), f)
       ELSE <<f>> \o sorted

RECURSIVE SortByMtime(_)
SortByMtime(files) ==
  IF files = <<>> THEN <<>>
  ELSE InsertByMtime(SortByMtime(SubSeq(files, 1, Len(files) - 1)), files[Len(files)])

NoRead == [file |-> NoId, summary |-> EmptySummary, pushed |-> FALSE]

CodexStart ==
  /\ xPc = "start"
  /\ xArg \in CodexArgs
  /\ xFiles \in CodexListings
  /\ xIdx = 0
  /\ xEvents = <<>>
  /\ xOpened = <<>>
  /\ xLast = NoRead
  /\ xResult = <<>>

CodexIdle ==
  /\ xPc = "idle"
  /\ xArg = ArgUndefined
  /\ xFiles = <<>>
  /\ xIdx = 0
  /\ xEvents = <<>>
  /\ xOpened = <<>>
  /\ xLast = NoRead
  /\ xResult = <<>>

\* pathExists(sessionsRoot) is false: return []
CodexMissing ==
  /\ xPc = "start"
  /\ xFiles = <<>>
  /\ xPc' = "done"
  /\ xResult' = <<>>
  /\ UNCHANGED <<xArg, xFiles, xIdx, xEvents, xOpened, xLast, claudeVars, geminiVars, scanVars, mainVars, formatVars, readVars,
                 pickerVars, execVars>>

\* list, stat and sort the files, enter the loop
CodexList ==
  /\ xPc = "start"
  /\ xPc' = "loop"
  /\ xFiles' = SortByMtime(xFiles)
  /\ xIdx' = 1
  /\ UNCHANGED <<xArg, xEvents, xOpened, xLast, xResult, claudeVars, geminiVars, scanVars, mainVars, formatVars, readVars,
                 pickerVars, execVars>>

\* if (!entry.stat) continue
CodexSkipNoStat ==
  /\ xPc = "loop"
  /\ xIdx <= Len(xFiles)
  /\ xFiles[xIdx].mtimeMs = NoNumber
  /\ xIdx' = xIdx + 1
  /\ UNCHANGED <<xPc, xArg, xFiles, xEvents, xOpened, xLast, xResult, claudeVars, geminiVars, scanVars, mainVars, formatVars, readVars,
                 pickerVars, execVars>>

\* one iteration that reads the file: skip it, or push its event and
\* break out of the loop once the limit is reached
CodexReadFile ==
  /\ xPc = "loop"
  /\ xIdx <= Len(xFiles)
  /\ xFiles[xIdx].mtimeMs # NoNumber
  /\ \E content \in CodexContents :
       LET sum == readSessionSummary(content)
           name == xFiles[xIdx].name
       IN  /\ xOpened' = Append(xOpened, name)
           /\ xLast' = [file |-> name, summary |-> sum, pushed |-> CodexKeeps(sum)]
           /\ IF CodexKeeps(sum)
              THEN /\ xEvents' = Append(xEvents, CodexEvent(sum, name))
                   /\ IF CodexLimitReached(Len(xEvents) + 1, xArg)
                      THEN /\ xPc' = "done"
                           /\ xResult' = Append(xEvents, CodexEvent(sum, name))
                           /\ xIdx' = xIdx
                      ELSE /\ xIdx' = xIdx + 1
                           /\ UNCHANGED <<xPc, xResult>>
              ELSE /\ xIdx' = xIdx + 1
                   /\ UNCHANGED <<xPc, xEvents, xResult>>
  /\ UNCHANGED <<xArg, xFiles, claudeVars, geminiVars, scanVars, mainVars, formatVars, readVars,
                 pickerVars, execVars>>

\* the loop ran out of files: return events
CodexReturn ==
  /\ xPc = "loop"
  /\ xIdx > Len(xFiles)
  /\ xPc' = "done"
  /\ xResult' = xEvents
  /\ UNCHANGED <<xArg, xFiles, xIdx, xEvents, xOpened, xLast, claudeVars, geminiVars, scanVars, mainVars, formatVars, readVars,
                 pickerVars, execVars>>

NextCodex == CodexMissing \/ CodexList \/ CodexSkipNoStat \/ CodexReadFile \/ CodexReturn

\* fetchEvents on a store that holds one session file, line by line
ReadStart ==
  /\ rPc = "reading"
  /\ rLines = <<>>
  /\ rSum = EmptySummary
  /\ rEvents = <<>>

ReadIdle ==
  /\ rPc = "idle"
  /\ rLines = <<>>
  /\ rSum = EmptySummary
  /\ rEvents = <<>>

\* the stream yields a line: one iteration of the `for await` loop
ReadLine ==
  /\ rPc = "reading"
  /\ Len(rLines) < MaxFileLines
  /\ \E line \in CodexLines :
       /\ rLines' = Append(rLines, line)
       /\ rSum' = CodexLineStep(rSum, line)
  /\ UNCHANGED <<rPc, rEvents, claudeVars, codexVars, geminiVars, scanVars, mainVars, formatVars,
                 pickerVars, execVars>>

\* the stream ends: readSessionSummary returns, and fetchEvents skips the
\* file or pushes its event (part_004 lines 168-204)
ReadEnd ==
  /\ rPc = "reading"
  /\ rPc' = "done"
  /\ rEvents' = IF CodexKeeps(rSum) THEN <<CodexEvent(rSum, FileNames[1])>> ELSE <<>>
  /\ UNCHANGED <<rLines, rSum, claudeVars, codexVars, geminiVars, scanVars, mainVars, formatVars,
                 pickerVars, execVars>>

NextRead == ReadLine \/ ReadEnd

----------------------------------------------------------------------------
(* providers/gemini/index.ts *)

\* crypto.createHash('sha256').update(dir).digest('hex'): distinct
\* directories have distinct digests
Sha256(dir) == <<"sha256", dir>>

GeminiNames == <<"a.json", "b.json", "c.json", "d.json">>

\* a chat file's project directory and mtimeMs (NoNumber when stat fails)
GeminiPlaces ==
  ({Sha256(cwd)} \X Mtimes) \cup {<<Sha256(DirOther), 1000>>}

GeminiListings ==
  { [i \in 1..Len(m) |-> [dir |-> m[i][1], name |-> GeminiNames[i], mtimeMs |-> m[i][2]]] :
      m \in SeqsUpTo(GeminiPlaces, MaxFiles) }

UserMsg(content) == [type |-> "user", content |-> content]
OtherMsg(content) == [type |-> "gemini", content |-> content]

GeminiDoc(sid, lastUpdated, messages) ==
  [kind |-> "doc", sessionId |-> sid, lastUpdated |-> lastUpdated, messages |-> messages]

\* a file readFile fails on, one JSON.parse rejects, one of the wrong shape
GeminiBroken ==
  { [kind |-> k, sessionId |-> NoId, lastUpdated |-> NoId, messages |-> <<>>] :
      k \in {"unreadable", "garbage", "badshape"} }

GeminiDocs ==
  { GeminiDoc(sid, t, m) :
      sid \in {"g1", "b.json", NoId},
      t \in {Time100, Time200, TimeBad, NoId},
      m \in { <<UserMsg(HelloText)>>, <<OtherMsg(WorldText)>>,
              <<UserMsg(BlankText), UserMsg(HelloText)>>,
              <<OtherMsg(HelloText), UserMsg(WorldText)>> } }
  \cup GeminiBroken

GeminiArgs == { ArgUndefined, ArgNumber(0), ArgNumber(1), ArgObject(1, TRUE) }

\* readFile and JSON.parse succeeded and isValidGeminiSession(parsed)
isValidGeminiSession(doc) == doc.kind = "doc"

\* messages.filter(msg => msg.type === 'user' && typeof msg.content === 'string')
userMessages(doc) ==
  SelectSeq(doc.messages, LAMBDA m : m.type = "user" /\ m.content # NoString)

\* toSummary(firstUser ?? lastUser)
GeminiSummary(doc) ==
  LET users == userMessages(doc)
  IN  IF users = <<>> THEN NoString ELSE toSummary(users[1].content)

\* the tests without the one on the parsed date
GeminiKeeps_NoDateTest(doc) ==
  /\ isValidGeminiSession(doc)
  /\ doc.lastUpdated # NoId /\ doc.lastUpdated # ""
  /\ GeminiSummary(doc) # NoString

\* no `continue` is taken for this file
GeminiKeeps(doc) ==
  /\ isValidGeminiSession(doc)
  /\ doc.lastUpdated # NoId /\ doc.lastUpdated # ""
  /\ DateParse(doc.lastUpdated) # NaN
  /\ GeminiSummary(doc) # NoString

GeminiEvent(doc, fileName) ==
  [id |-> <<"gemini", IF doc.sessionId # NoId THEN doc.sessionId ELSE fileName>>,
   label |-> "Gemini CLI", occurredAt |-> DateParse(doc.lastUpdated),
   source |-> "gemini-tmp", confidence |-> "medium",
   summary |-> GeminiSummary(doc),
   resume |-> [command |-> "gemini", args |-> <<>>, mode |-> "launch"]]

\* typeof limit === 'number' && events.length >= limit, where limit is
\* fetchEvents' `limit ?? 50`
GeminiLimitReached(n, arg) ==
  CASE arg.kind = "undefined" -> n >= DefaultLimit
    [] arg.kind = "number" -> n >= arg.n
    [] OTHER -> FALSE

\* the files of ~/.gemini/tmp/<projectHash>/chats whose stat succeeded
ChatFiles(store, projectHash) ==
  SelectSeq(store, LAMBDA f : f.dir = projectHash /\ f.mtimeMs # NoNumber)

NoDoc == [file |-> NoId, doc |-> GeminiDoc(NoId, NoId, <<>>), pushed |-> FALSE]

GeminiStart ==
  /\ gPc = "start"
  /\ gArg \in GeminiArgs
  /\ gStore \in GeminiListings
  /\ gFiles = <<>>
  /\ gIdx = 0
  /\ gEvents = <<>>
  /\ gLast = NoDoc
  /\ gResult = <<>>

GeminiIdle ==
  /\ gPc = "idle"
  /\ gArg = ArgUndefined
  /\ gStore = <<>>
  /\ gFiles = <<>>
  /\ gIdx = 0
  /\ gEvents = <<>>
  /\ gLast = NoDoc
  /\ gResult = <<>>

\* pathExists(chatsRoot) is false: return []
GeminiMissing ==
  /\ gPc = "start"
  /\ \A i \in 1..Len(gStore) : gStore[i].dir # Sha256(cwd)
  /\ gPc' = "done"
  /\ gResult' = <<>>
  /\ UNCHANGED <<gArg, gStore, gFiles, gIdx, gEvents, gLast, claudeVars, codexVars, scanVars, mainVars, formatVars, readVars,
                 pickerVars, execVars>>

\* list the project's chat files, stat and sort them, enter the loop
GeminiList ==
  /\ gPc = "start"
  /\ gPc' = "loop"
  /\ gFiles' = SortByMtime(ChatFiles(gStore, Sha256(cwd)))
  /\ gIdx' = 1
  /\ UNCHANGED <<gArg, gStore, gEvents, gLast, gResult, claudeVars, codexVars, scanVars, mainVars, formatVars, readVars,
                 pickerVars, execVars>>

\* the limit test at the top of an iteration succeeds: break and return
GeminiBreak ==
  /\ gPc = "loop"
  /\ gIdx <= Len(gFiles)
  /\ GeminiLimitReached(Len(gEvents), gArg)
  /\ gPc' = "done"
  /\ gResult' = gEvents
  /\ UNCHANGED <<gArg, gStore, gFiles, gIdx, gEvents, gLast, claudeVars, codexVars, scanVars, mainVars, formatVars, readVars,
                 pickerVars, execVars>>

\* one iteration that reads the file and skips it or pushes its event
GeminiReadFile ==
  /\ gPc = "loop"
  /\ gIdx <= Len(gFiles)
  /\ ~GeminiLimitReached(Len(gEvents), gArg)
  /\ \E doc \in GeminiDocs :
       LET name == gFiles[gIdx].name
       IN  /\ gLast' = [file |-> name, doc |-> doc, pushed |-> GeminiKeeps(doc)]
           /\ gEvents' = IF GeminiKeeps(doc)
                         THEN Append(gEvents, GeminiEvent(doc, name)) ELSE gEvents
  /\ gIdx' = gIdx + 1
  /\ UNCHANGED <<gPc, gArg, gStore, gFiles, gResult, claudeVars, codexVars, scanVars, mainVars, formatVars, readVars,
                 pickerVars, execVars>>

\* the loop ran out of files: return events
GeminiReturn ==
  /\ gPc = "loop"
  /\ gIdx > Len(gFiles)
  /\ gPc' = "done"
  /\ gResult' = gEvents
  /\ UNCHANGED <<gArg, gStore, gFiles, gIdx, gEvents, gLast, claudeVars, codexVars, scanVars, mainVars, formatVars, readVars,
                 pickerVars, execVars>>

NextGemini == GeminiMissing \/ GeminiList \/ GeminiBreak \/ GeminiReadFile \/ GeminiReturn

----------------------------------------------------------------------------
(* lib/scan.ts and cli.tsx *)

ScanEvent(id, t) ==
  [id |-> <<"tool", id>>, label |-> "Tool", occurredAt |-> t, source |-> "log",
   confidence |-> "high", summary |-> HelloText,
   resume |-> [command |-> "tool", args |-> <<id>>, mode |-> "resume"]]

\* the resume of an event that has none (ToolEvent.resume is optional)
NoResume == [command |-> NoId, args |-> <<>>, mode |-> NoId]

ScanEvents ==
  { ScanEvent("e1", 100), ScanEvent("e1", 200),
    [ScanEvent("e2", 200) EXCEPT !.resume = NoResume] }

\* a provider's fetchEvents resolves with events, rejects, or throws
ProviderBehaviours ==
  { [outcome |-> "ok", events |-> e] : e \in SeqsUpTo(ScanEvents, MaxEvents) }
  \cup { [outcome |-> o, events |-> <<>>] : o \in {"reject", "throw"} }

ProviderLists == SeqsUpTo(ProviderBehaviours, MaxProviders)

RawLimits == {NoNumber, NaN, 0, 1}

ScanArgs ==
  { ArgUndefined, ArgObject(0, FALSE), ArgObject(1, FALSE), ArgObject(2, TRUE),
    ArgObject(NoNumber, TRUE) }

Pending == [status |-> "pending", value |-> <<>>]

\* cli.tsx lines 52-55: the limit main passes on
CliLimit(rawLimit) ==
  IF rawLimit # NoNumber /\ rawLimit # NaN /\ rawLimit > 0
  THEN ArgNumber(rawLimit) ELSE ArgUndefined

\* the callback without its try/catch
ProviderCallback_NoCatch(provider) ==
  IF provider.outcome = "ok"
  THEN [status |-> "fulfilled", value |-> provider.events]
  ELSE [status |-> "rejected", value |-> <<>>]

\* scan.ts lines 12-18: the async callback of providers.map
ProviderCallback(provider) ==
  IF provider.outcome = "ok"
  THEN [status |-> "fulfilled", value |-> provider.events]
  ELSE [status |-> "fulfilled", value |-> <<>>]

\* const { limit } = options ?? {}: a number has no limit property
ScanLimit(options) == IF options.kind = "object" THEN options.limit ELSE NoNumber

\* results.flat()
RECURSIVE Flat(_)
Flat(results) ==
  IF results = <<>> THEN <<>> ELSE Head(results) \o Flat(Tail(results))

\* the copy without the sort
sortByTime_Unsorted(events) == events

\* sortByTime
sortByTime(events) == SortDesc(events)

\* typeof limit === 'number' ? merged.slice(0, limit) : merged
ScanTruncate(merged, limit) ==
  IF limit # NoNumber THEN Slice0(merged, limit) ELSE merged

NoEvent == [id |-> <<"null", "null">>]

\* the ScanResult whose latest is taken from the unsorted concatenation
ScanResultOf_LatestUnsorted(values, options) ==
  LET events == ScanTruncate(sortByTime(Flat(values)), ScanLimit(options))
  IN  [events |-> events,
       latest |-> IF events = <<>> THEN NoEvent ELSE Flat(values)[1]]

\* scan.ts lines 21-26: the ScanResult of the settled callbacks
ScanResultOf(values, options) ==
  LET events == ScanTruncate(sortByTime(Flat(values)), ScanLimit(options))
  IN  [events |-> events, latest |-> IF events = <<>> THEN NoEvent ELSE events[1]]

\* an array of the callbacks' results in the order they settled
PromiseAll_CompletionOrder(results, order) ==
  [k \in 1..Len(order) |-> results[order[k]]]

\* await Promise.all(providers.map(...)): the callbacks' results in the
\* order of the providers, whatever the order they settled in
PromiseAll(results, order) == results

\* the callbacks' results, then the rest of scanProviders
ScanSettle(results, options) ==
  IF \E i \in 1..Len(results) : results[i].status = "rejected"
  THEN [status |-> "rejected", events |-> <<>>, latest |-> NoEvent]
  ELSE LET r == ScanResultOf([i \in 1..Len(results) |-> results[i].value], options)
       IN  [status |-> "resolved", events |-> r.events, latest |-> r.latest]

NotSettled == [status |-> "pending", events |-> <<>>, latest |-> NoEvent]

ScanStart ==
  /\ sPc \in {"main", "call"}
  /\ sRawLimit \in (IF sPc = "main" THEN RawLimits ELSE {NoNumber})
  /\ sOptions \in (IF sPc = "call" THEN ScanArgs ELSE {ArgUndefined})
  /\ sProviders \in ProviderLists
  /\ sResults = [i \in 1..Len(sProviders) |-> Pending]
  /\ sScan = NotSettled
  /\ sOrder = <<>>

ScanIdle ==
  /\ sPc = "idle"
  /\ sRawLimit = NoNumber
  /\ sOptions = ArgUndefined
  /\ sProviders = <<>>
  /\ sResults = <<>>
  /\ sScan = NotSettled
  /\ sOrder = <<>>

\* main up to `await scanProviders(providers, limit)`: every provider's
\* fetchEvents has been called
CliMain ==
  /\ sPc = "main"
  /\ sPc' = "scanning"
  /\ sOptions' = CliLimit(sRawLimit)
  /\ UNCHANGED <<sRawLimit, sProviders, sResults, sScan, sOrder, claudeVars, codexVars, geminiVars, mainVars, formatVars, readVars,
                 pickerVars, execVars>>

\* scanProviders(providers, options) called directly
ScanCall ==
  /\ sPc = "call"
  /\ sPc' = "scanning"
  /\ UNCHANGED <<sRawLimit, sOptions, sProviders, sResults, sScan, sOrder,
                 claudeVars, codexVars, geminiVars, mainVars, formatVars, readVars,
                 pickerVars, execVars>>

\* one provider's fetchEvents settles and its callback resolves
ProviderSettle ==
  /\ sPc = "scanning"
  /\ \E i \in 1..Len(sProviders) :
       /\ sResults[i].status = "pending"
       /\ sResults' = [sResults EXCEPT ![i] = ProviderCallback(sProviders[i])]
       /\ sOrder' = Append(sOrder, i)
  /\ UNCHANGED <<sPc, sRawLimit, sOptions, sProviders, sScan,
                 claudeVars, codexVars, geminiVars, mainVars, formatVars, readVars,
                 pickerVars, execVars>>

\* every callback has settled: Promise.all settles and scanProviders returns
ScanFinish ==
  /\ sPc = "scanning"
  /\ \A i \in 1..Len(sProviders) : sResults[i].status # "pending"
  /\ sPc' = "done"
  /\ sScan' = ScanSettle(PromiseAll(sResults, sOrder), sOptions)
  /\ UNCHANGED <<sRawLimit, sOptions, sProviders, sResults, sOrder,
                 claudeVars, codexVars, geminiVars, mainVars, formatVars, readVars,
                 pickerVars, execVars>>

MainIdle ==
  /\ mPc = "idle"
  /\ mLast = FALSE
  /\ mExitCode = NoNumber
  /\ mLog = <<>>
  /\ mSpawned = <<>>
  /\ mRendered = FALSE

\* main awaits the scan when the command line started it
MainStart ==
  /\ mPc = (IF sPc = "main" THEN "scan" ELSE "idle")
  /\ mLast \in (IF sPc = "main" THEN BOOLEAN ELSE {FALSE})
  /\ mExitCode = NoNumber
  /\ mLog = <<>>
  /\ mSpawned = <<>>
  /\ mRendered = FALSE

Said(text, about) == [text |-> text, about |-> about]

\* the --last branch that spawns whether or not the event has a resume
CliLast_NoResumeTest ==
  /\ sPc = "done" /\ sScan.status = "resolved"
  /\ mPc = "scan" /\ mLast
  /\ IF sScan.latest = NoEvent
     THEN /\ mLog' = Append(mLog, Said("No activity found.", NoId))
          /\ mExitCode' = 1
          /\ mPc' = "exit"
          /\ UNCHANGED mSpawned
     ELSE /\ mLog' = Append(mLog, Said("Launching:", sScan.latest.resume.command))
          /\ mSpawned' = Append(mSpawned, [command |-> sScan.latest.resume.command,
                                           args |-> sScan.latest.resume.args])
          /\ mPc' = "spawned"
          /\ UNCHANGED mExitCode
  /\ UNCHANGED <<mLast, mRendered, scanVars, claudeVars, codexVars, geminiVars, formatVars, readVars,
                 pickerVars, execVars>>

\* cli.tsx lines 58-75: the scan has resolved and --last was given
CliLast ==
  /\ sPc = "done" /\ sScan.status = "resolved"
  /\ mPc = "scan" /\ mLast
  /\ IF sScan.latest = NoEvent
     THEN /\ mLog' = Append(mLog, Said("No activity found.", NoId))
          /\ mExitCode' = 1
          /\ mPc' = "exit"
          /\ UNCHANGED mSpawned
     ELSE IF sScan.latest.resume = NoResume
     THEN /\ mLog' = Append(mLog, Said("does not support resume command.", sScan.latest.label))
          /\ mExitCode' = 1
          /\ mPc' = "exit"
          /\ UNCHANGED mSpawned
     ELSE /\ mLog' = Append(mLog, Said("Launching:", sScan.latest.resume.command))
          /\ mSpawned' = Append(mSpawned, [command |-> sScan.latest.resume.command,
                                           args |-> sScan.latest.resume.args])
          /\ mPc' = "spawned"
          /\ UNCHANGED mExitCode
  /\ UNCHANGED <<mLast, mRendered, scanVars, claudeVars, codexVars, geminiVars, formatVars, readVars,
                 pickerVars, execVars>>

\* the child closes or fails to start: spawnInteractive resolves, main returns
CliSpawnClose ==
  /\ mPc = "spawned"
  /\ mPc' = "exit"
  /\ UNCHANGED <<mLast, mExitCode, mLog, mSpawned, mRendered,
                 scanVars, claudeVars, codexVars, geminiVars, formatVars, readVars,
                 pickerVars, execVars>>

\* cli.tsx lines 77-84: without --last the picker is rendered
CliRender ==
  /\ sPc = "done" /\ sScan.status = "resolved"
  /\ mPc = "scan" /\ ~mLast
  /\ mRendered' = TRUE
  /\ mPc' = "picker"
  /\ UNCHANGED <<mLast, mExitCode, mLog, mSpawned,
                 scanVars, claudeVars, codexVars, geminiVars, formatVars, readVars,
                 pickerVars, execVars>>

\* cli.tsx lines 84-88: the picker exits, with the resume of the event the
\* user chose (onResume was called) or with none
CliPickerExit ==
  /\ mPc = "picker"
  /\ \E choice \in 0..Len(sScan.events) :
       IF choice = 0
       THEN /\ mPc' = "exit"
            /\ UNCHANGED mSpawned
       ELSE /\ sScan.events[choice].resume # NoResume
            /\ mSpawned' = Append(mSpawned, [command |-> sScan.events[choice].resume.command,
                                             args |-> sScan.events[choice].resume.args])
            /\ mPc' = "spawned"
  /\ UNCHANGED <<mLast, mExitCode, mLog, mRendered,
                 scanVars, claudeVars, codexVars, geminiVars, formatVars, readVars,
                 pickerVars, execVars>>

NextScan ==
  \/ CliMain \/ ScanCall \/ ProviderSettle \/ ScanFinish
  \/ CliLast \/ CliSpawnClose \/ CliRender \/ CliPickerExit

----------------------------------------------------------------------------
(* providers/index.ts: a scan of the built-in providers *)

\* const builtinProviders: ToolProvider[] = [codex, claude, gemini]
builtinProviders == <<"codex", "claude", "gemini">>

\* how many sessions a provider has in scope
SessionCounts == {0, 1, DefaultLimit + 1}

\* what a provider that has n sessions in scope resolves with when it is
\* called without a limit: `limit ?? 50` of them, most recent first
ProviderPage(name, n) ==
  [k \in 1..Min(n, DefaultLimit) |->
     [id |-> <<name, ToString(k)>>, label |-> name, occurredAt |-> 1000 - k,
      source |-> "log", confidence |-> "high", summary |-> HelloText,
      resume |-> [command |-> name, args |-> <<ToString(k)>>, mode |-> "resume"]]]

BuiltinLoads ==
  { [i \in 1..Len(builtinProviders) |->
       [outcome |-> "ok", events |-> ProviderPage(builtinProviders[i], n[i])]] :
      n \in [1..Len(builtinProviders) -> SessionCounts] }

\* a scan of the built-in providers, each with its own number of sessions
LoadStart ==
  /\ sPc \in {"main", "call"}
  /\ sRawLimit \in (IF sPc = "main" THEN RawLimits ELSE {NoNumber})
  /\ sOptions \in (IF sPc = "call" THEN ScanArgs ELSE {ArgUndefined})
  /\ sProviders \in BuiltinLoads
  /\ sResults = [i \in 1..Len(sProviders) |-> Pending]
  /\ sScan = NotSettled
  /\ sOrder = <<>>

----------------------------------------------------------------------------
(* a scan with a limit of providers that apply the same limit themselves *)

\* the occurredAt values of the providers' sessions
SessionTimes == {100, 200}

\* the k-th session of provider p
SessionEvent(p, k, t) ==
  [id |-> <<p, ToString(k)>>, label |-> p, occurredAt |-> t, source |-> "log",
   confidence |-> "high", summary |-> HelloText,
   resume |-> [command |-> p, args |-> <<ToString(k)>>, mode |-> "resume"]]

\* the items a provider has built before it sorts them, in any order of time
ProviderItems(p) ==
  { [k \in 1..Len(ts) |-> SessionEvent(p, k, ts[k])] :
      ts \in SeqsUpTo(SessionTimes, MaxEvents + 1) }

\* the slice taken before the sort
LimitedOutput_SliceFirst(items, limit) == SortDesc(Slice0(items, limit))

\* claude/index.ts lines 139-142: items.sort by occurredAt descending, then
\* items.slice(0, effectiveLimit)
LimitedOutput(items, limit) == Slice0(SortDesc(items), limit)

\* providers that hold `all` and resolve with their `limit` most recent
LimitedProviders(limit) ==
  { [i \in 1..MaxProviders |->
       [outcome |-> "ok", events |-> LimitedOutput(all[i], limit), all |-> all[i]]] :
      all \in [1..MaxProviders -> UNION { ProviderItems(p) : p \in {"codex", "claude"} }] }

\* scanProviders(providers, { limit }) over such providers
LimitedStart ==
  /\ sPc = "call"
  /\ sRawLimit = NoNumber
  /\ \E limit \in 0..(MaxEvents + 1) :
       /\ sOptions = ArgObject(limit, FALSE)
       /\ sProviders \in LimitedProviders(limit)
  /\ sResults = [i \in 1..Len(sProviders) |-> Pending]
  /\ sScan = NotSettled
  /\ sOrder = <<>>

NextLimited == ScanCall \/ ProviderSettle \/ ScanFinish

----------------------------------------------------------------------------
(* app.tsx: the picker, and main after it exits *)

MaxQuery == 2

ToLowerChar(c) == IF c = "A" THEN "a" ELSE IF c = "B" THEN "b" ELSE c

\* s.toLowerCase()
toLowerCase(s) == [i \in 1..Len(s) |-> ToLowerChar(s[i])]

PickerEvent(label, summary, command) ==
  [label |-> label, summary |-> summary,
   resume |-> IF command = NoId THEN NoResume
              ELSE [command |-> command, args |-> <<"--resume", command>>, mode |-> "resume"]]

PickerLists ==
  LET e1 == PickerEvent(<<"A", "b">>, <<"b">>, "x1")
      e2 == PickerEvent(<<"A", "b">>, NoString, NoId)
      e3 == PickerEvent(<<"c">>, <<"a", " ", "b">>, "x3")
      e4 == PickerEvent(<<"c">>, <<"b", "b">>, "x4")
  IN  { <<>>, <<e1, e2, e3>>, <<e3, e2, e4, e1>> }

\* the characters a key press can carry
TypedChars == {"a", "B", " ", "z"}

\* stdout.rows: undefined, or a height
RowCounts == {NoNumber, 7, 8}

\* query.trim().toLowerCase()
normalizedQuery(query) == toLowerCase(Trim(query))

\* `${event.label} ${event.summary ?? ''}`.toLowerCase()
FilterTarget(event) ==
  toLowerCase(event.label \o <<" ">> \o
              (IF event.summary = NoString THEN <<>> ELSE event.summary))

\* app.tsx: filteredEvents
filteredEvents(events, query) ==
  IF normalizedQuery(query) = <<>> THEN events
  ELSE SelectSeq(events, LAMBDA event : Includes(FilterTarget(event), normalizedQuery(query)))

\* app.tsx: totalRows, rootHeight, fixedRows, visibleCount
visibleCount(rows, message) ==
  LET totalRows == IF rows = NoNumber THEN 24 ELSE rows
      rootHeight == Max(1, totalRows - 1)
      fixedRows == 5 + (IF message # NoString THEN 1 ELSE 0)
  IN  Max(1, rootHeight - fixedRows)

\* app.tsx: clampedIndex
clampedIndex(selectedIndex, filtered) == Min(selectedIndex, Max(0, Len(filtered) - 1))

\* the window effect without the test against maxStart
nextStart_NoMaxStart(windowStart, clamped, count, visible) ==
  IF clamped < windowStart THEN clamped
  ELSE IF clamped >= windowStart + visible THEN clamped - visible + 1
  ELSE windowStart

\* app.tsx: nextStart of the window effect
nextStart(windowStart, clamped, count, visible) ==
  LET maxStart == Max(0, count - visible)
      moved == IF clamped < windowStart THEN clamped
               ELSE IF clamped >= windowStart + visible THEN clamped - visible + 1
               ELSE windowStart
  IN  IF moved > maxStart THEN maxStart ELSE moved

\* the values of the current render
Filtered == filteredEvents(pEvents, pQuery)
Clamped == clampedIndex(pSelectedIndex, Filtered)
Visible == visibleCount(pRows, pMessage)
NextStart == nextStart(pWindowStart, Clamped, Len(Filtered), Visible)

PickerIdle ==
  /\ pPc = "idle"
  /\ pEvents = <<>>
  /\ pRows = NoNumber
  /\ pQuery = <<>>
  /\ pSelectedIndex = 0
  /\ pWindowStart = 0
  /\ pMessage = NoString
  /\ pSelectedResume = NoResume
  /\ pSpawned = <<>>
  /\ pKey = "none"

\* render(<App events={events} onResume={onResume} />)
PickerStart ==
  /\ pPc = "picker"
  /\ pEvents \in PickerLists
  /\ pRows \in RowCounts
  /\ pQuery = <<>>
  /\ pSelectedIndex = 0
  /\ pWindowStart = 0
  /\ pMessage = NoString
  /\ pSelectedResume = NoResume
  /\ pSpawned = <<>>
  /\ pKey = "none"

PickerOthers == <<claudeVars, codexVars, geminiVars, scanVars, mainVars, formatVars, readVars, execVars>>

\* Escape or Ctrl+C: exit()
KeyEscape ==
  /\ pPc = "picker"
  /\ pKey' \in {"escape", "ctrl-c"}
  /\ pPc' = "exited"
  /\ UNCHANGED <<pEvents, pRows, pQuery, pSelectedIndex, pWindowStart, pMessage,
                 pSelectedResume, pSpawned, PickerOthers>>

KeyUp ==
  /\ pPc = "picker"
  /\ pKey' = "up"
  /\ pSelectedIndex' = Max(0, pSelectedIndex - 1)
  /\ UNCHANGED <<pPc, pEvents, pRows, pQuery, pWindowStart, pMessage,
                 pSelectedResume, pSpawned, PickerOthers>>

KeyDown ==
  /\ pPc = "picker"
  /\ pKey' = "down"
  /\ pSelectedIndex' = Min(pSelectedIndex + 1, Max(0, Len(Filtered) - 1))
  /\ UNCHANGED <<pPc, pEvents, pRows, pQuery, pWindowStart, pMessage,
                 pSelectedResume, pSpawned, PickerOthers>>

\* Enter on the unfiltered list
KeyReturn_Unfiltered ==
  /\ pPc = "picker"
  /\ pKey' = "return"
  /\ IF Clamped + 1 > Len(pEvents)
     THEN UNCHANGED <<pPc, pMessage, pSelectedResume>>
     ELSE LET current == pEvents[Clamped + 1]
          IN  IF current.resume = NoResume
              THEN /\ pMessage' = current.label
                   /\ UNCHANGED <<pPc, pSelectedResume>>
              ELSE /\ pSelectedResume' = current.resume
                   /\ pPc' = "exited"
                   /\ UNCHANGED pMessage
  /\ UNCHANGED <<pEvents, pRows, pQuery, pSelectedIndex, pWindowStart, pSpawned, PickerOthers>>

\* Enter: filteredEvents[clampedIndex], then handleSelect
KeyReturn ==
  /\ pPc = "picker"
  /\ pKey' = "return"
  /\ IF Clamped + 1 > Len(Filtered)
     THEN UNCHANGED <<pPc, pMessage, pSelectedResume>>
     ELSE LET current == Filtered[Clamped + 1]
          IN  IF current.resume = NoResume
              THEN /\ pMessage' = current.label
                   /\ UNCHANGED <<pPc, pSelectedResume>>
              ELSE /\ pSelectedResume' = current.resume
                   /\ pPc' = "exited"
                   /\ UNCHANGED pMessage
  /\ UNCHANGED <<pEvents, pRows, pQuery, pSelectedIndex, pWindowStart, pSpawned, PickerOthers>>

KeyBackspace ==
  /\ pPc = "picker"
  /\ pKey' = "backspace"
  /\ IF Len(pQuery) > 0
     THEN /\ pQuery' = SubSeq(pQuery, 1, Len(pQuery) - 1)
          /\ pSelectedIndex' = 0
          /\ pWindowStart' = 0
     ELSE UNCHANGED <<pQuery, pSelectedIndex, pWindowStart>>
  /\ UNCHANGED <<pPc, pEvents, pRows, pMessage, pSelectedResume, pSpawned, PickerOthers>>

\* a typed character
KeyInput ==
  /\ pPc = "picker"
  /\ Len(pQuery) < MaxQuery
  /\ pKey' = "input"
  /\ \E c \in TypedChars : pQuery' = Append(pQuery, c)
  /\ pSelectedIndex' = 0
  /\ pWindowStart' = 0
  /\ UNCHANGED <<pPc, pEvents, pRows, pMessage, pSelectedResume, pSpawned, PickerOthers>>

\* the terminal is resized: the resize handler forces a render
Resize ==
  /\ pPc = "picker"
  /\ pRows' \in RowCounts \ {pRows}
  /\ UNCHANGED <<pPc, pEvents, pQuery, pSelectedIndex, pWindowStart, pMessage,
                 pSelectedResume, pSpawned, pKey, PickerOthers>>

\* the effects of a render: the one on [clampedIndex, selectedIndex], then
\* the one on [clampedIndex, filteredEvents.length, visibleCount, windowStart]
Effects ==
  /\ pPc = "picker"
  /\ pSelectedIndex # Clamped \/ NextStart # pWindowStart
  /\ pSelectedIndex' = Clamped
  /\ pWindowStart' = NextStart
  /\ UNCHANGED <<pPc, pEvents, pRows, pQuery, pMessage,
                 pSelectedResume, pSpawned, pKey, PickerOthers>>

\* cli.tsx: waitUntilExit has resolved; spawnInteractive if a resume was selected
CliAfterPicker ==
  /\ pPc = "exited"
  /\ pPc' = "end"
  /\ pSpawned' = IF pSelectedResume # NoResume
                 THEN Append(pSpawned, [command |-> pSelectedResume.command,
                                        args |-> pSelectedResume.args])
                 ELSE pSpawned
  /\ UNCHANGED <<pEvents, pRows, pQuery, pSelectedIndex, pWindowStart, pMessage,
                 pSelectedResume, pKey, PickerOthers>>

NextPicker ==
  \/ KeyEscape \/ KeyUp \/ KeyDown \/ KeyReturn \/ KeyBackspace \/ KeyInput
  \/ Resize \/ Effects \/ CliAfterPicker

----------------------------------------------------------------------------
(* lib/exec.ts: runCommand and spawnInteractive *)

MaxChildEvents == 3

\* null as an exit code
NullCode == NoNumber

\* the codes a 'close' event can carry
CloseCodes == {0, 2, NullCode}

TimeoutValues == {NoNumber, 0, 100}

ChildEvent(type, code) == [type |-> type, code |-> code]

ExecIdle ==
  /\ ePc = "idle"
  /\ eKind = "none"
  /\ eTimeoutMs = NoNumber
  /\ eTimer = "none"
  /\ eSettled = FALSE
  /\ eStdout = 0
  /\ eResolved = <<>>
  /\ eKills = <<>>
  /\ eChild = <<>>

ExecStart ==
  /\ ePc = "call"
  /\ eKind \in {"runCommand", "spawnInteractive"}
  /\ eTimeoutMs \in (IF eKind = "runCommand" THEN TimeoutValues ELSE {NoNumber})
  /\ eTimer = "none"
  /\ eSettled = FALSE
  /\ eStdout = 0
  /\ eResolved = <<>>
  /\ eKills = <<>>
  /\ eChild = <<>>

ExecOthers == <<claudeVars, codexVars, geminiVars, scanVars, mainVars, formatVars, readVars, pickerVars>>

\* the promise executor: spawn, the handlers, the timeout
ExecCall ==
  /\ ePc = "call"
  /\ ePc' = "running"
  /\ eTimer' = IF eKind = "runCommand" /\ eTimeoutMs # NoNumber /\ eTimeoutMs # 0
               THEN "armed" ELSE "none"
  /\ UNCHANGED <<eKind, eTimeoutMs, eSettled, eStdout, eResolved, eKills, eChild, ExecOthers>>

\* finish that leaves the timeout running
TimerAfterFinish_NoClear(timer) == timer

\* if (timeout) clearTimeout(timeout)
TimerAfterFinish(timer) == IF timer = "armed" THEN "cleared" ELSE timer

\* the value resolve is called with
ExecResult(code) ==
  IF eKind = "runCommand" THEN [stdout |-> eStdout, exitCode |-> code]
  ELSE [stdout |-> 0, exitCode |-> code]

\* finish(code)
Finish(code) ==
  IF eSettled
  THEN UNCHANGED <<eSettled, eTimer, eResolved>>
  ELSE /\ eSettled' = TRUE
       /\ eTimer' = TimerAfterFinish(eTimer)
       /\ eResolved' = Append(eResolved, ExecResult(code))

Emitted(type) == \E k \in 1..Len(eChild) : eChild[k].type = type

\* child.stdout emits 'data' (stdio is piped for runCommand only)
ChildData ==
  /\ ePc = "running" /\ eKind = "runCommand"
  /\ Len(eChild) < MaxChildEvents /\ ~Emitted("close")
  /\ eStdout' = eStdout + 1
  /\ eChild' = Append(eChild, ChildEvent("data", NullCode))
  /\ UNCHANGED <<ePc, eKind, eTimeoutMs, eTimer, eSettled, eResolved, eKills, ExecOthers>>

\* the child emits 'error'
ChildError ==
  /\ ePc = "running"
  /\ Len(eChild) < MaxChildEvents
  /\ eChild' = Append(eChild, ChildEvent("error", 1))
  /\ Finish(1)
  /\ UNCHANGED <<ePc, eKind, eTimeoutMs, eStdout, eKills, ExecOthers>>

\* the child emits 'close'
ChildClose ==
  /\ ePc = "running"
  /\ Len(eChild) < MaxChildEvents /\ ~Emitted("close")
  /\ \E code \in CloseCodes :
       /\ eChild' = Append(eChild, ChildEvent("close", code))
       /\ Finish(code)
  /\ UNCHANGED <<ePc, eKind, eTimeoutMs, eStdout, eKills, ExecOthers>>

\* the timeout fires: child.kill('SIGKILL')
TimeoutFire ==
  /\ ePc = "running"
  /\ eTimer = "armed"
  /\ eTimer' = "fired"
  /\ eKills' = Append(eKills, eSettled)
  /\ UNCHANGED <<ePc, eKind, eTimeoutMs, eSettled, eStdout, eResolved, eChild, ExecOthers>>

NextExec == ExecCall \/ ChildData \/ ChildError \/ ChildClose \/ TimeoutFire

----------------------------------------------------------------------------
(* Specifications: one provider call each, a call of any provider, a scan *)

InitClaude == ClaudeStart /\ CodexIdle /\ GeminiIdle /\ ScanIdle /\ MainIdle /\ FormatIdle /\ ReadIdle /\ PickerIdle /\ ExecIdle
InitCodex == ClaudeIdle /\ CodexStart /\ GeminiIdle /\ ScanIdle /\ MainIdle /\ FormatIdle /\ ReadIdle /\ PickerIdle /\ ExecIdle
InitGemini == ClaudeIdle /\ CodexIdle /\ GeminiStart /\ ScanIdle /\ MainIdle /\ FormatIdle /\ ReadIdle /\ PickerIdle /\ ExecIdle
InitScan == ClaudeIdle /\ CodexIdle /\ GeminiIdle /\ ScanStart /\ MainStart /\ FormatIdle /\ ReadIdle /\ PickerIdle /\ ExecIdle
InitFormat == ClaudeIdle /\ CodexIdle /\ GeminiIdle /\ ScanIdle /\ MainIdle /\ FormatStart /\ ReadIdle /\ PickerIdle /\ ExecIdle
InitRead ==
  ClaudeIdle /\ CodexIdle /\ GeminiIdle /\ ScanIdle /\ MainIdle /\ FormatIdle /\ ReadStart /\ PickerIdle /\ ExecIdle
InitParsers == InitClaude \/ InitCodex \/ InitGemini \/ InitRead

NextParsers == NextClaude \/ NextCodex \/ NextGemini \/ NextRead

SpecGemini == InitGemini /\ [][NextGemini]_vars
SpecParsers == InitParsers /\ [][NextParsers]_vars
SpecScan == InitScan /\ [][NextScan]_vars

SpecClaude == InitClaude /\ [][NextClaude]_vars
SpecCodex == InitCodex /\ [][NextCodex]_vars
SpecRead == InitRead /\ [][NextRead]_vars

InitLoad == ClaudeIdle /\ CodexIdle /\ GeminiIdle /\ LoadStart /\ MainStart /\ FormatIdle /\ ReadIdle /\ PickerIdle /\ ExecIdle

SpecFormat == InitFormat /\ [][NextFormat]_vars

SpecLoad == InitLoad /\ [][NextScan]_vars

InitLimited == ClaudeIdle /\ CodexIdle /\ GeminiIdle /\ LimitedStart /\ MainIdle /\ FormatIdle /\ ReadIdle /\ PickerIdle /\ ExecIdle

SpecLimited == InitLimited /\ [][NextLimited]_vars

InitPicker ==
  ClaudeIdle /\ CodexIdle /\ GeminiIdle /\ ScanIdle /\ MainIdle /\ FormatIdle /\ ReadIdle
    /\ PickerStart /\ ExecIdle

SpecPicker == InitPicker /\ [][NextPicker]_vars

InitExec ==
  ClaudeIdle /\ CodexIdle /\ GeminiIdle /\ ScanIdle /\ MainIdle /\ FormatIdle /\ ReadIdle
    /\ PickerIdle /\ ExecStart

SpecExec == InitExec /\ [][NextExec]_vars

----------------------------------------------------------------------------
(* Directory relation by path components, as the claims state it *)

\* the non-empty components of a path, in order
RECURSIVE Components(_, _)
Components(path, current) ==
  IF path = <<>> THEN (IF current = <<>> THEN <<>> ELSE <<current>>)
  ELSE IF Head(path) = "/"
       THEN (IF current = <<>> THEN <<>> ELSE <<current>>) \o Components(Tail(path), <<>>)
       ELSE Components(Tail(path), Append(current, Head(path)))

IsPrefixSeq(a, b) == Len(a) <= Len(b) /\ SubSeq(b, 1, Len(a)) = a

\* the directories are equal, or one lies below the other
DirRelated(a, b) ==
  LET ca == Components(a, <<>>)
      cb == Components(b, <<>>)
  IN  IsPrefixSeq(ca, cb) \/ IsPrefixSeq(cb, ca)

----------------------------------------------------------------------------
(* Claude parser: the records of a session, as the claims count them *)

SeqRange(seq) == { seq[i] : i \in 1..Len(seq) }

EventsWithId(events, id) == { i \in 1..Len(events) : events[i].id = id }

ClaudeSessionIds == { l.sessionId : l \in { x \in ClaudeLines : x.kind = "record" } } \ {NoId}

\* the complete, in-scope records of a session in the log
InScopeRecords(sid) ==
  { i \in 1..Len(cLog) :
      /\ cLog[i].kind = "record" /\ cLog[i].sessionId = sid
      /\ cLog[i].timestamp > 0 /\ cLog[i].project # NoString
      /\ DirRelated(cLog[i].project, cwd) }

NonEcho(i) == cLog[i].display # NoString /\ ~isUiEcho(cLog[i].display)

\* those of them that carry a display with usable, non-echo text
UsableRecords(sid) ==
  { i \in InScopeRecords(sid) : NonEcho(i) /\ toSummary(cLog[i].display) # NoString }

MaxTimestamp(S) == CHOOSE t \in { cLog[i].timestamp : i \in S } :
                     \A i \in S : cLog[i].timestamp <= t
MinTimestamp(S) == CHOOSE t \in { cLog[i].timestamp : i \in S } :
                     \A i \in S : cLog[i].timestamp >= t

\* the first record to arrive among those of S with the earliest timestamp
EarliestRecord(S) ==
  CHOOSE i \in S : /\ cLog[i].timestamp = MinTimestamp(S)
                   /\ \A j \in S : cLog[j].timestamp = MinTimestamp(S) => i <= j

ClaudeLimitAllows(n) ==
  \/ cArg.kind = "undefined" /\ n <= DefaultLimit
  \/ cArg.kind = "number" /\ n <= cArg.n

ClaudeUsableSessions == { sid \in ClaudeSessionIds : UsableRecords(sid) # {} }

\* C1 as stated: every session with in-scope records yields exactly one
\* event, dated at the maximum timestamp of its in-scope records and
\* summarised by its earliest-timestamp non-echo record.
C1_Original ==
  (cPc = "done" /\ cArg.kind = "undefined") =>
    \A sid \in ClaudeSessionIds :
      InScopeRecords(sid) # {} =>
        /\ Cardinality(EventsWithId(cResult, <<"claude", sid>>)) = 1
        /\ \A k \in EventsWithId(cResult, <<"claude", sid>>) :
             /\ cResult[k].occurredAt = MaxTimestamp(InScopeRecords(sid))
             /\ \E i \in InScopeRecords(sid) :
                  /\ NonEcho(i)
                  /\ \A j \in InScopeRecords(sid) :
                       NonEcho(j) => cLog[i].timestamp <= cLog[j].timestamp
                  /\ cResult[k].summary = toSummary(cLog[i].display)

\* C1 (amended): a call without a limit or with a numeric limit emits at
\* most one event per session and none for a session without a usable
\* record; the event is dated at the maximum timestamp of the session's
\* usable records and summarised by the earliest-timestamp usable record
\* (the first to arrive among equal timestamps); it is emitted whenever
\* the limit admits all sessions that have a usable record.
C1_Theorem ==
  (cPc = "done" /\ cArg.kind # "object") =>
    \A sid \in ClaudeSessionIds :
      LET U == UsableRecords(sid)
          E == EventsWithId(cResult, <<"claude", sid>>)
      IN  /\ Cardinality(E) <= 1
          /\ U = {} => E = {}
          /\ (U # {} /\ ClaudeLimitAllows(Cardinality(ClaudeUsableSessions))) => E # {}
          /\ \A k \in E :
               /\ cResult[k].occurredAt = MaxTimestamp(U)
               /\ cResult[k].summary = toSummary(cLog[EarliestRecord(U)].display)

\* a session whose later-arriving record is the earlier one, with another text
C1_Witness ==
  /\ cPc = "done" /\ Len(cResult) = 1
  /\ \E i, j \in UsableRecords("s1") :
       /\ i < j /\ cLog[j].timestamp < cLog[i].timestamp
       /\ cLog[i].display # cLog[j].display
       /\ cResult[1].summary = toSummary(cLog[j].display)
       /\ cResult[1].occurredAt = cLog[i].timestamp

LacksField(line) ==
  /\ line.kind = "record"
  /\ line.sessionId = NoId \/ line.timestamp = NoNumber \/ line.project = NoString

KeepsField(line) == ~LacksField(line)

\* C9: the output for a log equals the output for the same log with the
\* records that lack sessionId, timestamp or project removed.
C9_Theorem ==
  cPc = "done" => cResult = ClaudeFinalize(ClaudeFold(SelectSeq(cLog, KeepsField)), cArg)

\* a record without timestamp between two usable records of its session
C9_Witness ==
  /\ cPc = "done" /\ Len(cResult) = 1
  /\ \E i, j, k \in 1..Len(cLog) :
       /\ i < j /\ j < k
       /\ cLog[j].kind = "record" /\ cLog[j].timestamp = NoNumber
       /\ cLog[j].sessionId = "s1"
       /\ {i, k} \subseteq UsableRecords("s1")

----------------------------------------------------------------------------
(* Directory scoping *)

RelatedOrNoProject(line) ==
  line.kind # "record" \/ line.project = NoString \/ DirRelated(line.project, cwd)

\* C2: without includeAll, the Claude parser's output is that of the log
\* without the records whose project is neither cwd, nor above it, nor
\* below it, every event it emits has such a record, and the Codex parser
\* pushes an event only for a file whose recorded directory is cwd, above
\* it or below it (by path components, not by string prefix).
C2_Theorem ==
  /\ (cPc = "done" /\ ~cArg.includeAll) =>
       /\ cResult = ClaudeFinalize(ClaudeFold(SelectSeq(cLog, RelatedOrNoProject)), cArg)
       /\ \A k \in 1..Len(cResult) :
            \E i \in 1..Len(cLog) :
              /\ cLog[i].kind = "record" /\ cResult[k].id = <<"claude", cLog[i].sessionId>>
              /\ cLog[i].project # NoString /\ DirRelated(cLog[i].project, cwd)
  /\ (xLast.pushed /\ ~xArg.includeAll) => DirRelated(xLast.summary.sessionCwd, cwd)

\* a session recorded above cwd, below it and in a directory that shares
\* cwd's string prefix
C2_Witness ==
  /\ cPc = "done" /\ Len(cResult) = 1 /\ ~cArg.includeAll
  /\ cResult[1].id = <<"claude", "s3">>
  /\ \E i, j, k \in 1..Len(cLog) :
       /\ cLog[i].kind = "record" /\ cLog[i].project = DirParent
       /\ cLog[j].kind = "record" /\ cLog[j].project = DirSibling
       /\ cLog[k].kind = "record" /\ cLog[k].project = DirChild

----------------------------------------------------------------------------
(* scanProviders *)

Count(x, seq) == Cardinality({ i \in 1..Len(seq) : seq[i] = x })

SortedDesc(events) ==
  \A i \in 1..(Len(events) - 1) : events[i].occurredAt >= events[i + 1].occurredAt

\* everything the providers returned, in provider order
Returned ==
  Flat([i \in 1..Len(sProviders) |->
          IF sProviders[i].outcome = "ok" THEN sProviders[i].events ELSE <<>>])

\* C3: the returned events are in non-increasing occurredAt order and no
\* event occurs in them more often than the providers returned it; without
\* a limit every returned event is there.
C3_Theorem ==
  sPc = "done" =>
    /\ SortedDesc(sScan.events)
    /\ \A e \in SeqRange(sScan.events) \cup SeqRange(Returned) :
         /\ Count(e, sScan.events) <= Count(e, Returned)
         /\ ScanLimit(sOptions) = NoNumber => Count(e, sScan.events) = Count(e, Returned)

\* two providers whose results are out of order once concatenated
C3_Witness ==
  /\ sPc = "done" /\ Len(sScan.events) = 2
  /\ ~SortedDesc(Returned)
  /\ Len(sProviders) = 2 /\ sProviders[1].events # <<>> /\ sProviders[2].events # <<>>

\* the limit the caller supplied: options.limit, or a positive --limit
SuppliedLimit ==
  IF sRawLimit # NoNumber /\ sRawLimit # NaN /\ sRawLimit > 0 THEN sRawLimit
  ELSE IF sOptions.kind = "object" THEN sOptions.limit ELSE NoNumber

\* C4 as stated: with a limit L supplied, through options or through the
\* --limit flag, the events handed on are the min(L, n) most recent of the
\* n events the providers returned.
C4_Claim ==
  (sPc = "done" /\ SuppliedLimit # NoNumber) =>
    /\ Len(sScan.events) = Min(SuppliedLimit, Len(Returned))
    /\ \A i \in 1..Len(sScan.events) :
         sScan.events[i].occurredAt = SortDesc(Returned)[i].occurredAt

OkProviders == SelectSeq(sProviders, LAMBDA p : p.outcome = "ok")

\* C5: whichever providers reject or throw, scanProviders resolves, with
\* the result it has for the non-failing providers alone.
C5_Theorem ==
  sPc = "done" =>
    /\ sScan.status = "resolved"
    /\ sScan.events =
         ScanResultOf([i \in 1..Len(OkProviders) |-> OkProviders[i].events], sOptions).events

\* a failing provider before one that returned events
C5_Witness ==
  /\ sPc = "done" /\ sScan.events # <<>>
  /\ Len(sProviders) = 2
  /\ sProviders[1].outcome \in {"reject", "throw"}
  /\ sProviders[2].outcome = "ok"

----------------------------------------------------------------------------
(* The parsers' outputs *)

\* a complete record with a usable display, whatever its project
UsableAnywhere(sid) ==
  { i \in 1..Len(cLog) :
      /\ cLog[i].kind = "record" /\ cLog[i].sessionId = sid
      /\ cLog[i].timestamp > 0 /\ cLog[i].project # NoString
      /\ NonEcho(i) /\ toSummary(cLog[i].display) # NoString }

\* C6 as stated: with includeAll the Claude parser returns an event for
\* every session that has a usable record, in whatever directory, and
\* the Gemini parser considers the chat files of every project directory.
C6_Claim ==
  /\ (cPc = "done" /\ cArg.kind = "object" /\ cArg.includeAll) =>
       \A sid \in ClaudeSessionIds :
         UsableAnywhere(sid) # {} => EventsWithId(cResult, <<"claude", sid>>) # {}
  /\ (gPc = "done" /\ gArg.kind = "object" /\ gArg.includeAll) =>
       \A i \in 1..Len(gStore) :
         gStore[i].mtimeMs # NoNumber => \E j \in 1..Len(gFiles) : gFiles[j] = gStore[i]

NonEmptySummary(e) == e.summary # NoString /\ Len(e.summary) >= 1

UsableText(text) == text # NoString /\ toSummary(text) # NoString

\* C7: every event a parser holds or returns has a non-empty summary, and
\* an event is pushed only for a session or file with usable text.
C7_Theorem ==
  /\ \A e \in SeqRange(cResult) \cup SeqRange(xEvents) \cup SeqRange(xResult)
              \cup SeqRange(gEvents) \cup SeqRange(gResult) : NonEmptySummary(e)
  /\ \A sid \in ClaudeSessionIds :
       EventsWithId(cResult, <<"claude", sid>>) # {} => UsableRecords(sid) # {}
  /\ xLast.pushed =>
       \/ UsableText(xLast.summary.firstUserMessage)
       \/ UsableText(xLast.summary.prevUserMessage)
       \/ UsableText(xLast.summary.lastUserMessage)
  /\ gLast.pushed =>
       \E i \in 1..Len(gLast.doc.messages) :
         gLast.doc.messages[i].type = "user" /\ UsableText(gLast.doc.messages[i].content)

\* a Codex file in scope whose only message is blank, read after a file
\* that produced an event
C7_Witness ==
  /\ xPc = "done" /\ Len(xResult) = 1
  /\ xLast.file # NoId /\ ~xLast.pushed
  /\ xLast.summary.sessionId # NoId /\ xLast.summary.sessionCwd = cwd
  /\ xLast.summary.firstUserMessage = BlankText

UniqueIds(events) ==
  \A i, j \in 1..Len(events) : events[i].id = events[j].id => i = j

\* C8 as stated: no two events of one parser's output have the same id.
C8_Claim ==
  /\ cPc = "done" => UniqueIds(cResult)
  /\ xPc = "done" => UniqueIds(xResult)
  /\ gPc = "done" => UniqueIds(gResult)

\* the limit a call passes: fetchEvents(L) or fetchEvents({ limit: L })
PassedLimit(arg) ==
  IF arg.kind = "number" THEN arg.n
  ELSE IF arg.kind = "object" THEN arg.limit ELSE NoNumber

\* C10 as stated: a parser called with a limit L >= 0 returns at most L events.
C10_Claim ==
  /\ (cPc = "done" /\ PassedLimit(cArg) # NoNumber) => Len(cResult) <= PassedLimit(cArg)
  /\ (xPc = "done" /\ PassedLimit(xArg) # NoNumber) => Len(xResult) <= PassedLimit(xArg)
  /\ (gPc = "done" /\ PassedLimit(gArg) # NoNumber) => Len(gResult) <= PassedLimit(gArg)

----------------------------------------------------------------------------
(* The default limit *)

\* C11 as stated: when no limit is supplied, scanProviders returns at most
\* 50 events in total across all providers.
C11_Claim ==
  (sPc = "done" /\ SuppliedLimit = NoNumber) => Len(sScan.events) <= DefaultLimit

----------------------------------------------------------------------------
(* Where the emitted events come from *)

\* dir is base itself or lies below it
IsWithin(dir, base) == IsPrefixSeq(Components(base, <<>>), Components(dir, <<>>))

\* the records of the log an event of the Claude parser may come from:
\* those of its session, recorded in a directory that satisfies Scope
ClaudeOrigins(event, Scope(_)) ==
  { i \in 1..Len(cLog) :
      /\ cLog[i].kind = "record" /\ event.id = <<"claude", cLog[i].sessionId>>
      /\ cLog[i].project # NoString /\ Scope(cLog[i].project) }

InOrBelowCwd(dir) == IsWithin(dir, cwd)

InBelowOrAboveCwd(dir) == IsWithin(dir, cwd) \/ IsWithin(cwd, dir)

----------------------------------------------------------------------------
(* toSummary *)

Ellipsis == <<".", ".", ".">>

EndsWith(s, suffix) ==
  Len(suffix) <= Len(s) /\ SubSeq(s, Len(s) - Len(suffix) + 1, Len(s)) = suffix

\* C13: for every text whose summary is defined, the summary of the
\* summary is the summary itself.
C13_Theorem == fPc = "twice" => fTwice = fOnce

\* a truncated summary of 120 characters whose "..." follows a space
C13_Witness ==
  /\ fPc = "twice" /\ Len(fInput) > SummaryMax
  /\ Len(fOnce) = SummaryMax /\ EndsWith(fOnce, Ellipsis)
  /\ fOnce[SummaryKeep] = " "
  /\ fTwice = fOnce

\* the normalised text: the characters of the text that are not
\* whitespace, with one space wherever whitespace separates two of them
Normalised(text) ==
  IF text = NoString THEN <<>>
  ELSE LET Solid(i) == text[i] \notin Whitespace
           Separates(i) == /\ ~Solid(i) /\ i > 1 /\ Solid(i - 1)
                           /\ \E j \in (i + 1)..Len(text) : Solid(j)
           marked == [i \in 1..Len(text) |->
                        [ch |-> IF Solid(i) THEN text[i] ELSE " ",
                         keep |-> Solid(i) \/ Separates(i)]]
           kept == SelectSeq(marked, LAMBDA c : c.keep)
       IN  [i \in 1..Len(kept) |-> kept[i].ch]

SingleSpaced(s) ==
  /\ s[1] \notin Whitespace /\ s[Len(s)] \notin Whitespace
  /\ \A i \in 1..Len(s) :
       s[i] \in Whitespace => (s[i] = " " /\ (i < Len(s) => s[i + 1] \notin Whitespace))

\* C14: the summary is undefined exactly for an absent, empty or
\* whitespace-only text; otherwise it has 1 to 120 characters, no leading
\* or trailing whitespace and no whitespace but single spaces, and it is
\* the normalised text, or its first 117 characters followed by "..." when
\* the normalised text has more than 120 characters.
C14_Theorem ==
  fPc \in {"once", "twice"} =>
    LET normal == Normalised(fInput)
    IN  IF normal = <<>> THEN fOnce = NoString
        ELSE /\ fOnce # NoString
             /\ Len(fOnce) >= 1 /\ Len(fOnce) <= SummaryMax
             /\ SingleSpaced(fOnce)
             /\ fOnce = IF Len(normal) > SummaryMax
                        THEN SubSeq(normal, 1, SummaryKeep) \o Ellipsis
                        ELSE normal

\* a text with a run of whitespace around a line break, cut to 120
C14_Witness ==
  /\ fPc = "once" /\ fInput # NoString
  /\ Len(Normalised(fInput)) > SummaryMax
  /\ \E i \in 1..Len(fInput) : fInput[i] = "\n"
  /\ Len(fInput) > Len(Normalised(fInput)) + 1
  /\ Len(fOnce) = SummaryMax /\ EndsWith(fOnce, Ellipsis)

----------------------------------------------------------------------------
(* Gemini parser *)

\* C15 as stated: the events the Gemini parser returns are in
\* non-increasing occurredAt order, whatever the files' modification times.
C15_Claim == gPc = "done" => SortedDesc(gResult)


\* an iteration of the Gemini loop that read a file
GeminiRead == gPc = "loop" /\ gIdx' = gIdx + 1

NoUserMessage(doc) == \A i \in 1..Len(doc.messages) : doc.messages[i].type # "user"

\* the content is not JSON, lastUpdated is absent or no instant, or no
\* message is of type user
GeminiRejectable(doc) ==
  \/ doc.kind = "garbage"
  \/ /\ doc.kind = "doc"
     /\ \/ doc.lastUpdated = NoId
        \/ DateParse(doc.lastUpdated) = NaN
        \/ NoUserMessage(doc)

\* a document with a valid lastUpdated and a single user message with text
GeminiPlain(doc) ==
  /\ doc.kind = "doc" /\ doc.lastUpdated # NoId /\ DateParse(doc.lastUpdated) # NaN
  /\ Len(doc.messages) = 1 /\ doc.messages[1].type = "user"
  /\ UsableText(doc.messages[1].content)

\* C16: reading a file whose content is not JSON, whose lastUpdated is
\* absent or no valid instant, or that has no user message adds no event
\* and leaves the loop running with the events collected so far; and a
\* plain document read right after such a file still yields its event.
C16_Theorem ==
  [][ GeminiRead =>
        /\ GeminiRejectable(gLast'.doc) =>
             (~gLast'.pushed /\ gEvents' = gEvents /\ gPc' = "loop")
        /\ (gLast.file # NoId /\ GeminiRejectable(gLast.doc) /\ GeminiPlain(gLast'.doc)) =>
             (gLast'.pushed /\ Len(gEvents') = Len(gEvents) + 1) ]_vars

\* a file with only assistant messages read after a file that gave an
\* event, and the event is returned
C16_Witness ==
  /\ gPc = "done" /\ Len(gFiles) = 2 /\ Len(gResult) = 1
  /\ gLast.file = gFiles[2].name /\ ~gLast.pushed
  /\ gLast.doc.kind = "doc" /\ DateParse(gLast.doc.lastUpdated) # NaN
  /\ gLast.doc.messages # <<>> /\ NoUserMessage(gLast.doc)

----------------------------------------------------------------------------
(* The scan result *)

\* C17: latest is null exactly when the returned events are empty;
\* otherwise it is their first element and none of them is more recent.
C17_Theorem ==
  sPc = "done" =>
    /\ (sScan.latest = NoEvent) <=> (sScan.events = <<>>)
    /\ sScan.events # <<>> =>
         /\ sScan.latest = sScan.events[1]
         /\ \A i \in 1..Len(sScan.events) :
              sScan.events[i].occurredAt <= sScan.latest.occurredAt

\* the most recent event is the one the second provider returned
C17_Witness ==
  /\ sPc = "done" /\ Len(sScan.events) = 2 /\ Len(Returned) = 2
  /\ Returned[1].occurredAt < Returned[2].occurredAt
  /\ sScan.latest = Returned[2]

----------------------------------------------------------------------------
(* The command line *)

LatestResume == [command |-> sScan.latest.resume.command, args |-> sScan.latest.resume.args]

\* C18: with --last the picker is never rendered and nothing is spawned
\* before the scan has resolved; once main has acted on the result, either
\* the scan returned no events or its latest event has no resume, and then
\* the exit status is 1, one message was printed and nothing was spawned,
\* or exactly one subprocess was spawned, with the command and args of the
\* latest event's resume.
C18_Theorem ==
  mLast =>
    /\ ~mRendered
    /\ mSpawned # <<>> => (sPc = "done" /\ sScan.status = "resolved")
    /\ mPc = "scan" => (mSpawned = <<>> /\ mExitCode = NoNumber /\ mLog = <<>>)
    /\ mPc \in {"spawned", "exit"} =>
         IF sScan.events = <<>> \/ sScan.latest.resume = NoResume
         THEN mExitCode = 1 /\ Len(mLog) = 1 /\ mSpawned = <<>>
         ELSE mSpawned = <<LatestResume>>

\* --last with two events: the more recent one is resumed and main returns
C18_Witness ==
  /\ mLast /\ mPc = "exit" /\ Len(sScan.events) = 2
  /\ sScan.events[1].occurredAt > sScan.events[2].occurredAt
  /\ mSpawned = <<[command |-> "tool", args |-> <<"e1">>]>>
  /\ mExitCode = NoNumber

----------------------------------------------------------------------------
(* Malformed lines *)

\* the line is valid JSON of the right shape
WellFormed(line) == line.kind = "record"

\* C19: whatever lines that are not valid JSON or have the wrong shape a
\* log holds, and wherever they are, the Claude parser's aggregate and
\* output and the Codex parser's summary of a file are those of the log
\* without these lines.
C19_Theorem ==
  /\ cPc \in {"reading", "done"} => sessions = ClaudeFold(SelectSeq(cLog, WellFormed))
  /\ cPc = "done" =>
       cResult = ClaudeFinalize(ClaudeFold(SelectSeq(cLog, WellFormed)), cArg)
  /\ rPc \in {"reading", "done"} =>
       rSum = readSessionSummary(SelectSeq(rLines, WellFormed))

\* a Codex file with an unparsable line between its session_meta and its
\* user message
C19_Witness ==
  /\ rPc = "done" /\ Len(rLines) = 3
  /\ rLines[1] = SessionMeta("s1", cwd)
  /\ rLines[2] = CodexGarbage
  /\ rLines[3] = UserMessage(Time200, HelloText)
  /\ rSum.sessionId = "s1" /\ rSum.firstUserMessage = HelloText
  /\ rSum.lastTimestamp = Time200

----------------------------------------------------------------------------
(* UI echo *)

ContainsMarker(text) == \E marker \in markers : Includes(text, marker)

\* the records of a session in the Claude log that carry a display
DisplayRecords(sid) ==
  { i \in 1..Len(cLog) :
      cLog[i].kind = "record" /\ cLog[i].sessionId = sid /\ cLog[i].display # NoString }

\* C20 as stated: no event of the Claude or Codex parser has a summary
\* that contains one of the picker's UI marker strings, and a session
\* whose only messages are UI echoes yields no event.
C20_Claim ==
  /\ \A e \in SeqRange(cResult) \cup SeqRange(xEvents) \cup SeqRange(xResult) :
       ~ContainsMarker(e.summary)
  /\ cPc = "done" =>
       \A sid \in ClaudeSessionIds :
         (\A i \in DisplayRecords(sid) : ContainsMarker(cLog[i].display)) =>
           EventsWithId(cResult, <<"claude", sid>>) = {}
  /\ xLast.pushed => xLast.summary.firstUserMessage # NoString

----------------------------------------------------------------------------
(* Gemini summary selection *)

\* the contents of the document's messages of type user, in order
UserContents(doc) ==
  LET users == SelectSeq(doc.messages, LAMBDA m : m.type = "user")
  IN  [i \in 1..Len(users) |-> users[i].content]

DatedDoc(doc) ==
  doc.kind = "doc" /\ doc.lastUpdated # NoId /\ DateParse(doc.lastUpdated) # NaN

LastOf(seq) == seq[Len(seq)]

\* C21 as stated: the summary of a Gemini document is the normalised
\* content of its first user message, or of its last user message when the
\* first yields no usable text, so a document with a valid lastUpdated and
\* a user message with usable text always yields an event.
C21_Claim ==
  (gLast.file # NoId /\ DatedDoc(gLast.doc) /\ UserContents(gLast.doc) # <<>>) =>
    LET first == UserContents(gLast.doc)[1]
        last == LastOf(UserContents(gLast.doc))
    IN  IF UsableText(first)
        THEN gLast.pushed /\ LastOf(gEvents).summary = toSummary(first)
        ELSE IF UsableText(last)
        THEN gLast.pushed /\ LastOf(gEvents).summary = toSummary(last)
        ELSE ~gLast.pushed

----------------------------------------------------------------------------
(* Codex: the summary and the state of one file *)

IsUserMessage(line) ==
  line.kind = "record" /\ line.type = "event_msg" /\ line.ptype = "user_message"
  /\ line.message # NoString

\* the texts of the file's user messages that are not UI echoes, in order
NonEchoMessages ==
  LET kept == SelectSeq(rLines, LAMBDA l : IsUserMessage(l) /\ ~ContainsMarker(l.message))
  IN  [i \in 1..Len(kept) |-> kept[i].message]

\* the first of them, the one before the last, and the last
SummaryCandidates ==
  LET m == NonEchoMessages
  IN  IF m = <<>> THEN <<>>
      ELSE IF Len(m) = 1 THEN <<m[1], m[1]>>
      ELSE <<m[1], m[Len(m) - 1], m[Len(m)]>>

\* the file has a session id, an in-scope cwd and a valid timestamp
ReadableFile ==
  /\ rSum.sessionId # NoId
  /\ rSum.sessionCwd # NoString /\ DirRelated(rSum.sessionCwd, cwd)
  /\ rSum.lastTimestamp # NoId /\ DateParse(rSum.lastTimestamp) # NaN

\* C22 as stated: for such a file the summary is that of the first
\* non-echo user message, else of the previous one, else of the last one,
\* and the file is discarded for lack of a summary only when none of them
\* yields non-empty normalised text.
C22_Claim ==
  (rPc = "done" /\ ReadableFile) =>
    LET c == SummaryCandidates
        usable == { i \in 1..Len(c) : UsableText(c[i]) }
    IN  IF usable = {} THEN rEvents = <<>>
        ELSE /\ Len(rEvents) = 1
             /\ rEvents[1].summary =
                  toSummary(c[CHOOSE i \in usable : \A j \in usable : i <= j])


\* the value Field gives for the last line of the file that satisfies
\* Supplies, or none when no line does
LastSupplied(Supplies(_), Field(_), none) ==
  LET S == { i \in 1..Len(rLines) : rLines[i].kind = "record" /\ Supplies(rLines[i]) }
  IN  IF S = {} THEN none
      ELSE Field(rLines[CHOOSE i \in S : \A j \in S : j <= i])

SuppliesId(line) == line.type = "session_meta" /\ line.id # NoId
SuppliesCwd(line) == line.type = "session_meta" /\ line.cwd # NoString
SuppliesTimestamp(line) == line.timestamp # NoId
IdOf(line) == line.id
CwdOf(line) == line.cwd
TimestampOf(line) == line.timestamp

\* C23: after any sequence of lines, the session id and the working
\* directory are those of the last session_meta record that supplied each,
\* lastTimestamp is the timestamp of the last record that carries one,
\* whatever its type, and the event of the file is dated by it.
C23_Theorem ==
  rPc \in {"reading", "done"} =>
    /\ rSum.sessionId = LastSupplied(SuppliesId, IdOf, NoId)
    /\ rSum.sessionCwd = LastSupplied(SuppliesCwd, CwdOf, NoString)
    /\ rSum.lastTimestamp = LastSupplied(SuppliesTimestamp, TimestampOf, NoId)
    /\ \A k \in 1..Len(rEvents) :
         /\ rEvents[k].occurredAt =
              DateParse(LastSupplied(SuppliesTimestamp, TimestampOf, NoId))
         /\ rEvents[k].id = <<"codex", LastSupplied(SuppliesId, IdOf, NoId)>>

\* a file whose last record is a UI echo, later than its usable message
C23_Witness ==
  /\ rPc = "done" /\ Len(rLines) = 3 /\ Len(rEvents) = 1
  /\ rLines[2] = UserMessage(Time200, HelloText)
  /\ rLines[3] = UserMessage(Time300, EchoText)
  /\ rEvents[1].occurredAt = 300

----------------------------------------------------------------------------
(* Codex: the order in which files are opened *)

\* the listed file of that name
FileNamed(name) == CHOOSE f \in SeqRange(xFiles) : f.name = name

\* the result limit of a call: the number passed, or the default
ResultLimit(arg) == IF arg.kind = "number" THEN arg.n ELSE DefaultLimit

OpenedInMtimeOrder ==
  /\ \A i \in 1..Len(xOpened) : FileNamed(xOpened[i]).mtimeMs # NoNumber
  /\ \A i, j \in 1..Len(xOpened) :
       i < j => FileNamed(xOpened[i]).mtimeMs >= FileNamed(xOpened[j]).mtimeMs

\* C24 as stated: the files are opened one at a time in non-increasing
\* mtime order, a file whose stat failed is never opened, and once the
\* number of collected events has reached the result limit no further file
\* is opened.
C24_Claim ==
  /\ [](xPc \in {"loop", "done"} => OpenedInMtimeOrder)
  /\ [][ (xArg.kind # "object" /\ Len(xEvents) >= ResultLimit(xArg)) =>
           xOpened' = xOpened ]_vars

----------------------------------------------------------------------------
(* scanProviders and the order in which the providers settle *)

\* what scanProviders returns for these providers and options when the
\* providers' calls settle in the order of the list
InOrderScan ==
  ScanSettle([i \in 1..Len(sProviders) |-> ProviderCallback(sProviders[i])], sOptions)

AllSettled == \A i \in 1..Len(sProviders) : sResults[i].status # "pending"

\* C25: whatever the order in which the providers' calls settle, the events
\* and the latest scanProviders returns are those of the in-order run, and
\* it has not returned while a provider is still pending.
C25_Theorem ==
  /\ sScan # NotSettled => (AllSettled /\ Len(sOrder) = Len(sProviders))
  /\ sPc = "done" =>
       /\ sScan.status = InOrderScan.status
       /\ sScan.events = InOrderScan.events
       /\ sScan.latest = InOrderScan.latest

\* the second provider settled before the first, both with an event of the
\* same time
C25_Witness ==
  /\ sPc = "done" /\ sOrder = <<2, 1>>
  /\ Len(sScan.events) = 2
  /\ sScan.events[1] # sScan.events[2]
  /\ sScan.events[1].occurredAt = sScan.events[2].occurredAt

----------------------------------------------------------------------------
(* Limits applied by the providers and by the scan *)

TimesOf(events) == [k \in 1..Len(events) |-> events[k].occurredAt]

\* everything the providers hold, concatenated in the order of the providers
UnlimitedOutputs == Flat([i \in 1..Len(sProviders) |-> SortDesc(sProviders[i].all)])

\* C26: when every provider returns its L most recent events, the scan with
\* limit L returns events with the occurredAt values of the L most recent of
\* everything the providers hold, in the same order.
C26_Theorem ==
  sPc = "done" =>
    TimesOf(sScan.events) = TimesOf(Slice0(SortDesc(UnlimitedOutputs), sOptions.limit))

\* two providers that each left a session out, the scan keeping the session
\* of one of them only
C26_Witness ==
  /\ sPc = "done" /\ sOptions.limit = 1
  /\ \A i \in 1..Len(sProviders) :
       Len(sProviders[i].events) = 1 /\ Len(sProviders[i].all) = 2
  /\ Len(sScan.events) = 1
  /\ \E i \in 1..Len(sProviders) :
       sProviders[i].events[1].occurredAt < sScan.events[1].occurredAt

----------------------------------------------------------------------------
(* The picker *)

\* neither effect has anything left to do
EffectsDone == pSelectedIndex = Clamped /\ NextStart = pWindowStart

\* C27: the effective selected index stays within the filtered list; once
\* the effects have run the window start is within its range and the window
\* holds the selected index; a step that changes the query sets the
\* selection and the window start to 0.
C27_Theorem ==
  /\ [](pPc # "idle" =>
          /\ 0 <= Clamped /\ Clamped <= Max(0, Len(Filtered) - 1)
          /\ EffectsDone =>
               /\ 0 <= pWindowStart
               /\ pWindowStart <= Max(0, Len(Filtered) - Visible)
               /\ pWindowStart <= Clamped
               /\ Clamped < pWindowStart + Visible)
  /\ [][pQuery' # pQuery => (pSelectedIndex' = 0 /\ pWindowStart' = 0)]_vars

\* the window has followed the selection to the end of a list longer than
\* the window, after a resize and with a query typed
C27_Witness ==
  /\ pPc = "picker" /\ EffectsDone
  /\ pQuery # <<>> /\ Len(Filtered) = 3 /\ Len(Filtered) < Len(pEvents)
  /\ Visible = 2 /\ pRows = 8
  /\ Clamped = 2 /\ pWindowStart = 1


\* the event under the selection, when there is one
HasCurrent == Clamped + 1 <= Len(Filtered)
Current == Filtered[Clamped + 1]

\* C28: main spawns after the picker only when the picker exited on Enter
\* over an event with a resume, and then exactly once, with the command and
\* args of the event at the selected index of the filtered list; Escape,
\* Ctrl+C, Enter on an empty list and Enter on an event without a resume
\* spawn nothing.
C28_Theorem ==
  /\ pSpawned # <<>> =>
       /\ pPc = "end" /\ pKey = "return"
       /\ Len(pSpawned) = 1
       /\ HasCurrent /\ Current.resume # NoResume
       /\ pSpawned[1] = [command |-> Current.resume.command, args |-> Current.resume.args]
  /\ (pPc = "end" /\ pKey = "return") => Len(pSpawned) = 1
  /\ (pPc = "end" /\ pKey \in {"escape", "ctrl-c"}) => pSpawned = <<>>
  /\ (pKey = "return" /\ (~HasCurrent \/ Current.resume = NoResume)) =>
       (pPc = "picker" /\ pSpawned = <<>> /\ pSelectedResume = NoResume)

\* Enter on an event without a resume, then on one that the query has moved
\* to another index
C28_Witness ==
  /\ pPc = "end" /\ Len(pSpawned) = 1
  /\ pMessage # NoString
  /\ pQuery # <<>> /\ Len(Filtered) < Len(pEvents)
  /\ Current # pEvents[Clamped + 1]
  /\ pEvents[Clamped + 1].resume # NoResume

----------------------------------------------------------------------------
(* runCommand and spawnInteractive *)

\* the child's 'error' and 'close' events, in the order they were emitted
Endings == SelectSeq(eChild, LAMBDA e : e.type \in {"error", "close"})

\* a timeout was asked for (a timeoutMs of 0 arms none)
TimeoutSet == eKind = "runCommand" /\ eTimeoutMs # NoNumber /\ eTimeoutMs # 0

\* C29: resolve is called at most once, when the first of the child's
\* 'error' and 'close' events arrives and with its code (1 for 'error');
\* while a timeout is set and the promise is unresolved the timeout stays
\* due, and when it fires the child is sent one SIGKILL; no kill is sent
\* once the promise is resolved.
C29_Theorem ==
  ePc = "running" =>
    /\ Len(eResolved) <= 1
    /\ (eResolved # <<>>) <=> (Endings # <<>>)
    /\ eSettled <=> (eResolved # <<>>)
    /\ eResolved # <<>> =>
         eResolved[1].exitCode =
           (IF Endings[1].type = "error" THEN 1 ELSE Endings[1].code)
    /\ (TimeoutSet /\ eResolved = <<>>) => eTimer \in {"armed", "fired"}
    /\ ~TimeoutSet => (eTimer = "none" /\ eKills = <<>>)
    /\ Len(eKills) = (IF eTimer = "fired" THEN 1 ELSE 0)
    /\ \A k \in 1..Len(eKills) : eKills[k] = FALSE

\* the timeout fired, the child closed with no code and then reported an
\* error
C29_Witness ==
  /\ ePc = "running" /\ eTimer = "fired" /\ eKills = <<FALSE>>
  /\ Len(Endings) = 2
  /\ Endings[1] = ChildEvent("close", NullCode) /\ Endings[2].type = "error"
  /\ eResolved = <<[stdout |-> 1, exitCode |-> NullCode]>>

----------------------------------------------------------------------------
(* Claude: the per-session data while the log is read *)

\* the line the stream has just yielded
NewLine == cLog'[Len(cLog')]

\* C30: after any prefix of the log, every session in the map has the
\* minimum of its accepted records' timestamps as firstTimestamp and the
\* maximum as lastTimestamp, firstTimestamp <= lastTimestamp, and a
\* prevTimestamp, when set, between the two; an accepted record whose
\* timestamp equals the session's lastTimestamp becomes last, the former
\* last becoming prev.
C30_Theorem ==
  /\ [](cPc \in {"reading", "done"} =>
          \A k \in 1..Len(sessions) :
            LET data == sessions[k]
                U == UsableRecords(data.sessionId)
            IN  /\ U # {}
                /\ data.firstTimestamp = MinTimestamp(U)
                /\ data.lastTimestamp = MaxTimestamp(U)
                /\ data.firstTimestamp <= data.lastTimestamp
                /\ data.prevTimestamp # NoNumber =>
                     /\ data.firstTimestamp <= data.prevTimestamp
                     /\ data.prevTimestamp <= data.lastTimestamp)
  /\ [][\A k \in 1..Len(sessions) :
          (/\ Len(cLog') = Len(cLog) + 1
           /\ ClaudeAccepts(NewLine)
           /\ NewLine.sessionId = sessions[k].sessionId
           /\ NewLine.timestamp = sessions[k].lastTimestamp) =>
            /\ sessions'[k].last = ClaudeSummary(NewLine)
            /\ sessions'[k].lastTimestamp = sessions[k].lastTimestamp
            /\ sessions'[k].prev = sessions[k].last
            /\ sessions'[k].prevTimestamp = sessions[k].lastTimestamp]_vars

\* a session that got an earlier record and then one at its lastTimestamp
C30_Witness ==
  /\ cPc = "reading" /\ Len(cLog) = 3 /\ Len(sessions) = 1
  /\ UsableRecords(sessions[1].sessionId) = {1, 2, 3}
  /\ cLog[2].timestamp < cLog[1].timestamp
  /\ cLog[3].timestamp = cLog[1].timestamp
  /\ cLog[3].display # cLog[1].display
  /\ sessions[1].firstTimestamp < sessions[1].lastTimestamp
  /\ sessions[1].prevTimestamp = sessions[1].lastTimestamp
  /\ sessions[1].prev # sessions[1].last

====
